---- MODULE Spec2Model ----
(***************************************************************************)
(* claude-sync: the synchronisation engine.                                *)
(*                                                                         *)
(*   lib/lock.js     GitLock      the marker-file lock                     *)
(*   lib/git.js      GitManager   syncFile / pull around the clone         *)
(*   lib/syncer.js   Syncer       merge, push, fan-out, skills and agents  *)
(*   lib/watcher.js  Watcher      the change / add / unlink handlers       *)
(*                                                                         *)
(* Strings are sequences of tokens, paths are sequences of segments, a     *)
(* segment is a sequence of tokens: "/w2" is << <<"w", "2">> >>, so that   *)
(* String.startsWith is the prefix order on the flattened tokens.          *)
(***************************************************************************)
EXTENDS Naturals, Integers, Sequences, FiniteSets, TLC

VARIABLES
    marker,     \* the lock file: NoMarker, or what _tryAcquire wrote into it
    alive,      \* alive[p]: process p exists (process.kill(pid, 0) succeeds)
    lpc,        \* lpc[c]: where caller c stands in withLock
    tries,      \* tries[c]: acquire()'s loop counter i
    fnOut,      \* fnOut[c]: how the action passed to withLock settled
    wlRes,      \* wlRes[c]: how withLock itself settled
    workspaces, \* config.listWorkspaces(): the registered paths, in order
    disk,       \* the files on disk: path -> content, over the existing files
    dirs,       \* the directories inside the clone (paths below REPO_DIR)
    index,      \* the clone's staging area: path below REPO_DIR -> content
    head,       \* the clone's last commit
    remote,     \* origin/main
    stash,      \* the clone's stash entries, the newest first
    log,        \* the lock and repository calls of the handler that ran last
    last,       \* what that handler was given and what it answered
    edits,      \* how many edits the user has made
    pending,    \* the file events chokidar has yet to report
    processingFiles, \* the watcher's processingFiles: paths whose handler is running
    currentWorkspaces, \* the watcher's currentWorkspaces: the workspaces it watches
    debounceTimers, \* the watcher's debounceTimers: the paths with a timer set
    running,    \* the handler runs in flight: the awaited call has yet to return
    shadow      \* a second run of the same operations, when one is followed

lockVars == <<marker, alive, lpc, tries, fnOut, wlRes>>
watcherVars == <<currentWorkspaces, debounceTimers, running>>
syncVars == <<workspaces, disk, dirs, index, head, remote, stash, log, last, edits, pending,
              processingFiles, watcherVars, shadow>>
vars == <<marker, alive, lpc, tries, fnOut, wlRes,
          workspaces, disk, dirs, index, head, remote, stash, log, last, edits, pending,
          processingFiles, watcherVars, shadow>>

----------------------------------------------------------------------------
(* Bounds of the model. *)

\* acquire()'s retry budget, 150 in lib/lock.js, scaled down.
LOCK_MAX_RETRIES == 2

\* The OS processes sharing the lock file, and the callers of withLock: two
\* concurrent handlers of the daemon and one of the foreground watch.
Procs == {"daemon", "watch"}
Callers == {"d1", "d2", "w1"}
ProcOf(c) == IF c = "w1" THEN "watch" ELSE "daemon"

----------------------------------------------------------------------------
(* lib/lock.js *)

NoMarker == [pid |-> "none", owner |-> "none", old |-> FALSE]

\* Staleness judged by the owner's pid alone.
IsStaleByPidOnly(m, live) == m = NoMarker \/ ~live[m.pid]

\* _isStale(): an unreadable marker, one older than LOCK_TIMEOUT_MS, or one
\* of this host whose pid is gone. All processes run on one host.
IsStale(m, live) ==
    \/ m = NoMarker
    \/ m.old
    \/ ~live[m.pid]

\* Synchronous code runs to its next await: while a caller of a process is
\* between _tryAcquire() failing and the sleep or the retry, no other caller
\* of that process runs.
MidSync == {"stale", "reclaim"}
Runnable(c) ==
    /\ alive[ProcOf(c)]
    /\ \A d \in Callers \ {c} : ProcOf(d) = ProcOf(c) => lpc[d] \notin MidSync

\* withLock(fn) is called.
CallWithLock(c) ==
    /\ Runnable(c)
    /\ lpc[c] = "idle"
    /\ lpc' = [lpc EXCEPT ![c] = "try"]
    /\ UNCHANGED <<marker, alive, tries, fnOut, wlRes>>
    /\ UNCHANGED syncVars

\* One turn of acquire()'s loop: the bound, then _tryAcquire(), the atomic
\* writeFileSync(LOCK_FILE, ..., {flag: 'wx'}).
AcquireTry(c) ==
    /\ Runnable(c)
    /\ lpc[c] = "try"
    /\ IF tries[c] >= LOCK_MAX_RETRIES
       THEN /\ lpc' = [lpc EXCEPT ![c] = "timeout"]
            /\ wlRes' = [wlRes EXCEPT ![c] = "lock-timeout"]
            /\ UNCHANGED marker
       ELSE IF marker = NoMarker
       THEN /\ marker' = [pid |-> ProcOf(c), owner |-> c, old |-> FALSE]
            /\ lpc' = [lpc EXCEPT ![c] = "held"]
            /\ UNCHANGED wlRes
       ELSE /\ lpc' = [lpc EXCEPT ![c] = "stale"]
            /\ UNCHANGED <<marker, wlRes>>
    /\ UNCHANGED <<alive, tries, fnOut>>
    /\ UNCHANGED syncVars

\* _isStale() reads the marker.
AcquireIsStale(c) ==
    /\ Runnable(c)
    /\ lpc[c] = "stale"
    /\ lpc' = [lpc EXCEPT ![c] = IF IsStale(marker, alive) THEN "reclaim" ELSE "sleep"]
    /\ UNCHANGED <<marker, alive, tries, fnOut, wlRes>>
    /\ UNCHANGED syncVars

\* release(): unlink the lock file if it exists, whoever wrote it.
Release == NoMarker

\* A loop that forgets to count.
SameAttempt(i) == i

\* The i++ of acquire()'s for loop, after a sleep as after a continue.
NextAttempt(i) == i + 1

\* The stale branch: release(), continue.
AcquireReclaim(c) ==
    /\ Runnable(c)
    /\ lpc[c] = "reclaim"
    /\ marker' = Release
    /\ tries' = [tries EXCEPT ![c] = NextAttempt(tries[c])]
    /\ lpc' = [lpc EXCEPT ![c] = "try"]
    /\ UNCHANGED <<alive, fnOut, wlRes>>
    /\ UNCHANGED syncVars

\* await this._sleep(LOCK_RETRY_INTERVAL_MS), then the next turn.
AcquireSleep(c) ==
    /\ Runnable(c)
    /\ lpc[c] = "sleep"
    /\ tries' = [tries EXCEPT ![c] = NextAttempt(tries[c])]
    /\ lpc' = [lpc EXCEPT ![c] = "try"]
    /\ UNCHANGED <<marker, alive, fnOut, wlRes>>
    /\ UNCHANGED syncVars

\* fn() settles: it returns or it throws.
FnSettles(c) ==
    /\ Runnable(c)
    /\ lpc[c] = "held"
    /\ \E o \in {"return", "throw"} : fnOut' = [fnOut EXCEPT ![c] = o]
    /\ lpc' = [lpc EXCEPT ![c] = "finally"]
    /\ UNCHANGED <<marker, alive, tries, wlRes>>
    /\ UNCHANGED syncVars

\* What the marker is after withLock's cleanup, given how fn settled.
WithLockCleanupSkippedOnThrow(m, out) == IF out = "throw" THEN m ELSE Release
WithLockCleanup(m, out) == Release

\* try { return await fn() } finally { this.release() }
WithLockFinally(c) ==
    /\ Runnable(c)
    /\ lpc[c] = "finally"
    /\ marker' = WithLockCleanup(marker, fnOut[c])
    /\ wlRes' = [wlRes EXCEPT ![c] = fnOut[c]]
    /\ lpc' = [lpc EXCEPT ![c] = "settled"]
    /\ UNCHANGED <<alive, tries, fnOut>>
    /\ UNCHANGED syncVars

\* The caller takes withLock's result; it may call again.
CallerContinues(c) ==
    /\ Runnable(c)
    /\ lpc[c] \in {"settled", "timeout"}
    /\ lpc' = [lpc EXCEPT ![c] = "idle"]
    /\ tries' = [tries EXCEPT ![c] = 0]
    /\ fnOut' = [fnOut EXCEPT ![c] = "none"]
    /\ wlRes' = [wlRes EXCEPT ![c] = "none"]
    /\ UNCHANGED <<marker, alive>>
    /\ UNCHANGED syncVars

\* Time passes: the marker becomes older than LOCK_TIMEOUT_MS.
MarkerAges ==
    /\ marker # NoMarker
    /\ ~marker.old
    /\ marker' = [marker EXCEPT !.old = TRUE]
    /\ UNCHANGED <<alive, lpc, tries, fnOut, wlRes>>
    /\ UNCHANGED syncVars

\* A process is killed; its marker, if any, stays on disk.
ProcessDies(p) ==
    /\ alive[p]
    /\ \E q \in Procs \ {p} : alive[q]
    /\ alive' = [alive EXCEPT ![p] = FALSE]
    /\ UNCHANGED <<marker, lpc, tries, fnOut, wlRes>>
    /\ UNCHANGED syncVars

LockInit ==
    /\ marker = NoMarker
    /\ alive = [p \in Procs |-> TRUE]
    /\ lpc = [c \in Callers |-> "idle"]
    /\ tries = [c \in Callers |-> 0]
    /\ fnOut = [c \in Callers |-> "none"]
    /\ wlRes = [c \in Callers |-> "none"]

\* A step of caller c inside acquire().
AcquireStep(c) ==
    AcquireTry(c) \/ AcquireIsStale(c) \/ AcquireReclaim(c) \/ AcquireSleep(c)

LockNext ==
    \/ \E c \in Callers : CallWithLock(c)
    \/ \E c \in Callers : AcquireTry(c)
    \/ \E c \in Callers : AcquireIsStale(c)
    \/ \E c \in Callers : AcquireReclaim(c)
    \/ \E c \in Callers : AcquireSleep(c)
    \/ \E c \in Callers : FnSettles(c)
    \/ \E c \in Callers : WithLockFinally(c)
    \/ \E c \in Callers : CallerContinues(c)
    \/ MarkerAges
    \/ \E p \in Procs : ProcessDies(p)

----------------------------------------------------------------------------
(* Strings: sequences of tokens. *)

Whitespace == {" ", "\n"}

RECURSIVE TrimStart(_)
TrimStart(s) == IF s # <<>> /\ Head(s) \in Whitespace THEN TrimStart(Tail(s)) ELSE s

RECURSIVE TrimEnd(_)
TrimEnd(s) ==
    IF s # <<>> /\ s[Len(s)] \in Whitespace THEN TrimEnd(SubSeq(s, 1, Len(s) - 1)) ELSE s

\* String.prototype.trim
Trim(s) == TrimEnd(TrimStart(s))

\* String.prototype.startsWith, endsWith, includes
StartsWith(s, t) == Len(t) <= Len(s) /\ SubSeq(s, 1, Len(t)) = t
EndsWith(s, t) == Len(t) <= Len(s) /\ SubSeq(s, Len(s) - Len(t) + 1, Len(s)) = t
Includes(s, t) == \E i \in 0..(Len(s) - Len(t)) : SubSeq(s, i + 1, i + Len(t)) = t

\* toLowerCase on the tokens that carry upper-case letters.
LowerToken(t) ==
    CASE t = "SKILL" -> "skill"
      [] t = "Skill" -> "skill"
      [] t = "CLAUDE" -> "claude"
      [] t = "-GLOBAL" -> "-global"
      [] t = "-PROJECT" -> "-project"
      [] OTHER -> t
ToLowerCase(s) == [i \in 1..Len(s) |-> LowerToken(s[i])]

----------------------------------------------------------------------------
(* Paths: sequences of segments; a segment is a string. POSIX: the separator *)
(* is "/", file names are case-sensitive, process.platform is not win32.     *)

RECURSIVE Flat(_)
\* The path as the string the code compares: "/" before every segment.
Flat(p) == IF p = <<>> THEN <<>> ELSE <<"/">> \o Head(p) \o Flat(Tail(p))

\* path.basename, path.dirname
Basename(p) == p[Len(p)]
Dirname(p) == SubSeq(p, 1, Len(p) - 1)

RECURSIVE Normalize(_, _)
\* path.normalize of a relative path: "x/.." cancels.
Normalize(done, rest) ==
    IF rest = <<>> THEN done
    ELSE IF Head(rest) = <<"..">> /\ done # <<>> /\ done[Len(done)] # <<"..">>
    THEN Normalize(SubSeq(done, 1, Len(done) - 1), Tail(rest))
    ELSE Normalize(Append(done, Head(rest)), Tail(rest))

\* path.join of relative paths
Join(a, b) == Normalize(<<>>, a \o b)

RECURSIVE CommonLen(_, _)
CommonLen(a, b) ==
    IF a # <<>> /\ b # <<>> /\ Head(a) = Head(b) THEN 1 + CommonLen(Tail(a), Tail(b)) ELSE 0

\* path.relative(from, to) of absolute paths
Relative(from, to) ==
    LET k == CommonLen(from, to)
    IN  [i \in 1..(Len(from) - k) |-> <<"..">>] \o SubSeq(to, k + 1, Len(to))

\* A prefix test that wants something after the prefix.
pathStartsWithProper(filePath, prefix) ==
    Flat(filePath) # Flat(prefix) /\ StartsWith(Flat(filePath), Flat(prefix))

\* lib/pathUtils.js pathStartsWith, off win32: a prefix test on the strings.
pathStartsWith(filePath, prefix) == StartsWith(Flat(filePath), Flat(prefix))

\* p lies below directory d, segment by segment.
Below(p, d) == Len(p) > Len(d) /\ SubSeq(p, 1, Len(d)) = d

Home == << <<"h">> >>
GlobalSkillsPath == Home \o << <<".claude">>, <<"skills">> >>
GlobalAgentsPath == Home \o << <<".claude">>, <<"agents">> >>
REPO_DIR == Home \o << <<".config">>, <<"claude-sync">>, <<"repo">> >>

\* syncRules of the configuration template
GLOBAL_FILE == <<"CLAUDE", "-GLOBAL", ".md">>
PROJECT_FILE == <<"CLAUDE", "-PROJECT", ".md">>
TARGET_FILE == <<"CLAUDE", ".md">>

GlobalFileOf(w) == Append(w, GLOBAL_FILE)
ProjectFileOf(w) == Append(w, PROJECT_FILE)
TargetFileOf(w) == Append(w, TARGET_FILE)

----------------------------------------------------------------------------
(* lib/syncer.js mergeContent *)

Separator ==
    <<"\n", "\n", "---", "\n", "\n", "# Project-Specific Configuration", "\n", "\n">>

\* A merge that joins whatever it is given, untrimmed.
MergeContentJoined(globalContent, projectContent) ==
    globalContent \o Separator \o projectContent \o <<"\n">>

MergeContent(globalContent, projectContent) ==
    IF globalContent = <<>> /\ projectContent = <<>> THEN <<>>
    ELSE IF globalContent = <<>> THEN projectContent
    ELSE IF projectContent = <<>> THEN globalContent
    ELSE Trim(globalContent) \o Separator \o Trim(projectContent) \o <<"\n">>

----------------------------------------------------------------------------
(* The state the operations act on. Every operation below is a function    *)
(* from a state (and its arguments) to the state it leaves and its answer. *)

State ==
    [workspaces |-> workspaces, disk |-> disk, dirs |-> dirs, index |-> index,
     head |-> head, remote |-> remote, stash |-> stash, marker |-> marker, log |-> log,
     last |-> last,
     pending |-> pending, processingFiles |-> processingFiles]

With(f, x, v) == (x :> v) @@ f
Without(f, x) == [y \in (DOMAIN f) \ {x} |-> f[y]]

\* fs.existsSync, fs.writeFileSync, fs.unlinkSync on files
Exists(s, p) == p \in DOMAIN s.disk

SkillManifestLower == <<"skill", ".md">>

\* _buildWatchPaths: the paths the watcher reports events for.
Watched(s, p) ==
    \/ \E i \in 1..Len(s.workspaces) :
         LET w == s.workspaces[i]
         IN  \/ p = GlobalFileOf(w)
             \/ p = ProjectFileOf(w)
             \/ /\ Below(p, w \o << <<".claude">>, <<"skills">> >>)
                /\ ToLowerCase(Basename(p)) = SkillManifestLower
             \/ /\ Below(p, w \o << <<".claude">>, <<"agents">> >>)
                /\ EndsWith(Basename(p), <<".md">>)
    \/ Below(p, GlobalSkillsPath) /\ ToLowerCase(Basename(p)) = SkillManifestLower
    \/ Below(p, GlobalAgentsPath) /\ EndsWith(Basename(p), <<".md">>)

\* chokidar: a write or a removal of a watched file is an event to report.
Event(s, kind, p) ==
    IF Watched(s, p) THEN s.pending \cup {[kind |-> kind, path |-> p]} ELSE s.pending

WriteFile(s, p, c) ==
    [s EXCEPT !.disk = With(s.disk, p, c),
              !.pending = Event(s, IF Exists(s, p) THEN "change" ELSE "add", p)]
Unlink(s, p) ==
    [s EXCEPT !.disk = Without(s.disk, p), !.pending = Event(s, "unlink", p)]

\* A call on the lock or on the clone, as the handler makes it.
Log(s, op, path) == [s EXCEPT !.log = Append(s.log, [op |-> op, path |-> path])]

Ret(s, err, pushed) == [st |-> s, err |-> err, pushed |-> pushed]

----------------------------------------------------------------------------
(* lib/lock.js, as one handler sees it: acquire() either creates the marker *)
(* (reclaiming a stale one) or spends its retries on a live holder's.       *)

Me == "d1"
AllAlive == [p \in Procs |-> TRUE]

Acquire(s) ==
    IF s.marker = NoMarker \/ IsStale(s.marker, AllAlive)
    THEN Ret([Log(s, "acquire", <<>>) EXCEPT
                 !.marker = [pid |-> ProcOf(Me), owner |-> Me, old |-> FALSE]],
             "none", FALSE)
    ELSE Ret(s, "lock-timeout", FALSE)

\* withLock(fn): a is what acquire() answered and r what fn answered on the
\* state acquire() left.
WithLock(a, r) ==
    IF a.err # "none" THEN a
    ELSE LET out == IF r.err = "none" THEN "return" ELSE "throw"
         IN  [r EXCEPT !.st = [Log(r.st, "release", <<>>) EXCEPT
                                  !.marker = WithLockCleanup(r.st.marker, out)]]

----------------------------------------------------------------------------
(* lib/git.js *)

RepoRel(p) == SubSeq(p, Len(REPO_DIR) + 1, Len(p))

\* The clone's working tree, by path below REPO_DIR.
Worktree(s) ==
    LET rels == {RepoRel(q) : q \in {q \in DOMAIN s.disk : Below(q, REPO_DIR)}}
    IN  [r \in rels |-> s.disk[REPO_DIR \o r]]

\* git status: status.files.length > 0
Dirty(s) == Worktree(s) # s.index \/ s.index # s.head

Prefixes(rel) == {SubSeq(rel, 1, n) : n \in 1..Len(rel)}

\* fs.mkdirSync(dir, {recursive: true}) inside the clone
MkdirP(s, relDir) == [s EXCEPT !.dirs = s.dirs \cup Prefixes(relDir)]

\* fs.readdirSync(dir).length === 0 inside the clone
DirEmpty(s, relDir) ==
    /\ ~\E q \in DOMAIN s.disk : Below(q, REPO_DIR \o relDir)
    /\ ~\E d \in s.dirs : Below(d, relDir)

\* fs.copyFileSync(filePath, targetPath); git add fileName
CopyAndAdd(t, filePath, fileName) ==
    LET relDir == Dirname(fileName)
        t1 == IF relDir # <<>> /\ relDir \notin t.dirs
              THEN MkdirP(Log(t, "mkdir", relDir), relDir) ELSE t
    IN  IF ~Exists(t1, filePath) THEN Ret(t1, "enoent", FALSE)
        ELSE LET c == t1.disk[filePath]
                 t2 == WriteFile(Log(t1, "copy", fileName), REPO_DIR \o fileName, c)
                 t3 == [Log(t2, "add", fileName) EXCEPT !.index = With(t2.index, fileName, c)]
             IN  Ret(t3, "none", FALSE)

RECURSIVE PruneUp(_, _)
\* git rm removes the leading directories it leaves empty.
PruneUp(t, relDir) ==
    IF relDir # <<>> /\ DirEmpty(t, relDir)
    THEN PruneUp([t EXCEPT !.dirs = t.dirs \ {relDir}], Dirname(relDir))
    ELSE t

\* git rm fileName: fails on a path the index does not hold; removes the
\* file from the index and the working tree, and the directories it empties.
GitRm(t, fileName) ==
    IF fileName \notin DOMAIN t.index THEN Ret(Log(t, "rm", fileName), "git-rm-failed", FALSE)
    ELSE LET t1 == [Log(t, "rm", fileName) EXCEPT !.index = Without(t.index, fileName)]
             t2 == Unlink(t1, REPO_DIR \o fileName)
         IN  Ret(PruneUp(t2, Dirname(fileName)), "none", FALSE)

\* The file name the private-rules guard of syncFile compares with.
GuardedNameNone == <<"never">>
GuardedName == PROJECT_FILE

\* A push of whatever is committed, without the commit.
PushWithoutCommit(t, pushOk) ==
    LET t2 == Log(t, "push", <<>>)
    IN  IF pushOk THEN Ret([t2 EXCEPT !.remote = t.head], "none", TRUE)
        ELSE Ret(t2, "push-failed", FALSE)

\* git commit; git push origin main (with its retries): pushOk is whether
\* the push got through in the end.
CommitAndPush(t, pushOk) ==
    LET t1 == [Log(t, "commit", <<>>) EXCEPT !.head = t.index]
        t2 == Log(t1, "push", <<>>)
    IN  IF pushOk THEN Ret([t2 EXCEPT !.remote = t1.head], "none", TRUE)
        ELSE Ret(t2, "push-failed", FALSE)

\* The action syncFile passes to withLock.
SyncFileBody(t, filePath, targetFileName, isDelete, pushOk) ==
    LET fileName == IF targetFileName = <<>> THEN <<Basename(filePath)>> ELSE targetFileName
    IN  IF ~isDelete /\ Basename(filePath) = GuardedName
        THEN Ret(t, "private-never-pushed", FALSE)
        ELSE LET staged == IF ~isDelete THEN CopyAndAdd(t, filePath, fileName)
                           ELSE GitRm(t, fileName)
             IN  IF staged.err # "none" THEN staged
                 ELSE IF ~Dirty(staged.st) THEN Ret(staged.st, "none", FALSE)
                 ELSE CommitAndPush(staged.st, pushOk)

\* GitManager.syncFile(filePath, commitMessage, targetFileName, isDelete)
SyncFile(s, filePath, targetFileName, isDelete, pushOk) ==
    LET a == Acquire(s)
    IN  WithLock(a, SyncFileBody(a.st, filePath, targetFileName, isDelete, pushOk))

\* _retryWithBackoff's defaults
maxRetries == 3
baseDelayMs == 1000

\* The substrings _retryWithBackoff looks for in the message of an error.
TransientPatterns ==
    {<<"Could not resolve host">>, <<"Connection refused">>, <<"Connection reset">>,
     <<"Connection timed out">>, <<"unable to access">>, <<"SSL">>, <<"ETIMEDOUT">>,
     <<"ECONNRESET">>, <<"ECONNREFUSED">>, <<"ENOTFOUND">>, <<"fetch first">>,
     <<"failed to push">>, <<"Could not read from remote">>}

\* A classification that takes every error for a transient one.
IsTransientAlways(msg) == TRUE

\* isTransient
IsTransient(msg) == \E pat \in TransientPatterns : Includes(msg, pat)

\* A pause that does not grow.
DelayShrinking(attempt) == baseDelayMs \div (2 ^ attempt)

\* delayMs = baseDelayMs * Math.pow(2, attempt)
DelayMs(attempt) == baseDelayMs * (2 ^ attempt)

\* How a wrapped call settles: it returns val, or throws an error whose
\* message is val.
Returned(val) == [ok |-> TRUE, val |-> val]
Thrown(msg) == [ok |-> FALSE, val |-> msg]

\* A loop that gives up one attempt early.
LastAttemptEarly(attempt) == attempt + 1 = maxRetries

\* attempt === maxRetries: the loop's last turn
LastAttempt(attempt) == attempt = maxRetries

RECURSIVE RetryFrom(_, _, _)
\* The loop of _retryWithBackoff from one attempt on: outs[k] is how the
\* k-th call of fn settles, and delays the pauses made so far.
RetryFrom(outs, attempt, delays) ==
    LET out == outs[attempt + 1]
    IN  IF out.ok
        THEN [ok |-> TRUE, val |-> out.val, calls |-> attempt + 1, delays |-> delays]
        ELSE IF LastAttempt(attempt) \/ ~IsTransient(out.val)
        THEN [ok |-> FALSE, val |-> out.val, calls |-> attempt + 1, delays |-> delays]
        ELSE RetryFrom(outs, attempt + 1, Append(delays, DelayMs(attempt)))

\* _retryWithBackoff(fn, {operationName})
RetryWithBackoff(outs) == RetryFrom(outs, 0, <<>>)

\* The calls and pauses of one _retryWithBackoff, in order, and its answer.
RetryTrace(op, outs, r) ==
    [k \in 1..(2 * r.calls - 1) |->
        IF k % 2 = 1
        THEN [op |-> op, path |-> <<>>, out |-> outs[(k + 1) \div 2]]
        ELSE [op |-> "sleep", path |-> <<>>, ms |-> r.delays[k \div 2]]]
    \o <<[op |-> "_retryWithBackoff", path |-> <<>>, out |-> [ok |-> r.ok, val |-> r.val]]>>

\* What an operation that throws Error(msg), or that returns, answers.
Failed(s, msg) == [st |-> s, err |-> "failed", pushed |-> FALSE, msg |-> msg]
Done(s) == [st |-> s, err |-> "none", pushed |-> FALSE, msg |-> <<>>]

\* A call on the clone and how it settled.
Called(s, op, out) ==
    [s EXCEPT !.log = Append(s.log, [op |-> op, path |-> <<>>, out |-> out])]

\* The paths git tracks in the clone.
Tracked(t) == (DOMAIN t.index) \cup (DOMAIN t.head)

\* p is not the same in trees f and g.
Differs(f, g, p) ==
    IF p \in DOMAIN f /\ p \in DOMAIN g THEN f[p] # g[p]
    ELSE (p \in DOMAIN f) # (p \in DOMAIN g)

\* git rewrites the tracked files of the working tree: those of was go, those
\* of tree are written, with the directories they need; others stay.
Checkout(t, was, tree) ==
    LET gone == {REPO_DIR \o r : r \in was}
        put == {REPO_DIR \o r : r \in DOMAIN tree}
        files == [q \in ((DOMAIN t.disk) \ gone) \cup put |->
                     IF q \in put THEN tree[RepoRel(q)] ELSE t.disk[q]]
        t1 == [t EXCEPT !.disk = files]
    IN  [t1 EXCEPT !.dirs = (t.dirs \ UNION {Prefixes(Dirname(r)) : r \in was})
                            \cup UNION {Prefixes(Dirname(r)) : r \in DOMAIN Worktree(t1)}]

\* The tracked files of the working tree.
TrackedTree(t) ==
    LET w == Worktree(t)
    IN  [r \in (DOMAIN w) \cap Tracked(t) |-> w[r]]

\* git stash: the changes of tracked files, staged or not, become the newest
\* stash entry and the index and the tracked files go back to the last
\* commit; with no such change ("No local changes to save") nothing happens.
GitStash(t) ==
    LET t1 == Log(t, "stash", <<>>)
    IN  IF TrackedTree(t) = t.head /\ t.index = t.head THEN t1
        ELSE [Checkout(t1, Tracked(t), t.head) EXCEPT
                 !.stash = <<[base |-> t.head, tree |-> TrackedTree(t)]>> \o t.stash,
                 !.index = t.head]

\* git pull origin main got through: the clone never has commits the remote
\* lacks here, so the pull is a fast-forward.
GitPulled(t) ==
    [Checkout(t, Tracked(t), t.remote) EXCEPT !.head = t.remote, !.index = t.remote]

\* Messages of git stash pop
NoStashEntries == <<"No stash entries found.">>
PopConflict == <<"CONFLICT", " (content): Merge conflict in ", "CLAUDE", ".md">>

\* The content git leaves in a file both sides changed.
ConflictMarked(theirs, ours) ==
    <<"<<<<<<< Updated upstream\n">> \o theirs \o <<"=======\n">> \o ours
    \o <<">>>>>>> Stashed changes\n">>

\* git stash pop: with no entry it fails; when the newest entry changed a
\* path the commits pulled since changed too, it fails with a conflict,
\* leaves the conflict in the working tree and keeps the entry; otherwise the
\* entry's changes are back in the working tree and the entry is dropped.
GitStashPop(t) ==
    IF t.stash = <<>> THEN Failed(Called(t, "stash pop", Thrown(NoStashEntries)), NoStashEntries)
    ELSE LET e == Head(t.stash)
             all == (DOMAIN e.base) \cup (DOMAIN e.tree) \cup (DOMAIN t.head)
             mine == {r \in all : Differs(e.base, e.tree, r)}
             theirs == {r \in all : Differs(e.base, t.head, r)}
             both == mine \cap theirs
             kept == {r \in all : IF r \in mine \ both THEN r \in DOMAIN e.tree
                                  ELSE r \in DOMAIN t.head}
             merged == [r \in kept |->
                           IF r \in both /\ r \in DOMAIN e.tree
                           THEN ConflictMarked(t.head[r], e.tree[r])
                           ELSE IF r \in mine \ both THEN e.tree[r] ELSE t.head[r]]
             t2 == Checkout(t, Tracked(t) \cup all, merged)
         IN  IF both # {} THEN Failed(Called(t2, "stash pop", Thrown(PopConflict)), PopConflict)
             ELSE Done([Called(t2, "stash pop", Returned(<<>>)) EXCEPT !.stash = Tail(t.stash)])

\* The errors pull() throws when the stash pop failed.
StashPopConflictError(conflictMsg) ==
    <<"Stash pop failed", " due to ", "merge conflict", "s. ",
      "Your local changes are still saved in the stash.\n",
      "To resolve manually:\n", "  ", "cd ">> \o Flat(REPO_DIR)
    \o <<"\n", "  ", "git stash pop", "    (re-attempt, will show conflicts)\n",
         "  # resolve conflicts, then: ", "git add . && git stash drop", "\n",
         "Original error: ">> \o conflictMsg
StashRestoreError(conflictMsg) ==
    <<"Failed to restore stashed changes after pull. ",
      "Your changes are still in the stash.\n",
      "To recover: ", "cd ">> \o Flat(REPO_DIR) \o <<" && ", "git stash pop", "\n",
      "Original error: ">> \o conflictMsg

\* An error for every failed pop that tells no way out.
StashPopErrorBare(conflictMsg) == <<"Stash pop failed">>

\* catch (stashError) of pull()
StashPopError(conflictMsg) ==
    IF Includes(conflictMsg, <<"CONFLICT">>) \/ Includes(conflictMsg, <<"could not restore">>)
    THEN StashPopConflictError(conflictMsg)
    ELSE StashRestoreError(conflictMsg)

\* const hasChanges = status.files.length > 0
HasChanges(t) == Dirty(t)

\* A pull that leaves the stash alone when the pull failed.
PopAfterSuccessOnly(hasChanges, r) == hasChanges /\ r.ok

\* finally { if (hasChanges) ... }: the pop follows the pull however it ended.
PopAfter(hasChanges, r) == hasChanges

\* Message of a git stash that fails
StashFailed == <<"error: ", "could not write index">>

\* The action pull() passes to withLock: stashThrows is whether git stash
\* fails, outs how the successive calls of git pull settle.
PullBody(t, stashThrows, outs) ==
    LET t0 == Log(t, "status", <<>>)
        hasChanges == HasChanges(t)
    IN  IF hasChanges /\ stashThrows THEN Failed(Log(t0, "stash", <<>>), StashFailed)
        ELSE LET t1 == IF hasChanges THEN GitStash(t0) ELSE t0
                 r == RetryWithBackoff(outs)
                 t2 == [t1 EXCEPT !.log = t1.log \o RetryTrace("pull", outs, r)]
                 t3 == IF r.ok THEN GitPulled(t2) ELSE t2
                 pulled == IF r.ok THEN Done(t3) ELSE Failed(t3, r.val)
             IN  IF ~PopAfter(hasChanges, r) THEN pulled
                 ELSE LET pop == GitStashPop(t3)
                      IN  IF pop.err = "none" THEN [pulled EXCEPT !.st = pop.st]
                          ELSE Failed(pop.st, StashPopError(pop.msg))

\* GitManager.pull()
Pull(s, stashThrows, outs) ==
    LET a == Acquire(s)
    IN  WithLock(a, PullBody(a.st, stashThrows, outs))

----------------------------------------------------------------------------
(* The syncer (lib/syncer.js) *)

\* syncWorkspace(workspacePath): regenerate the merged output of a workspace.
SyncWorkspace(s, w) ==
    LET g == GlobalFileOf(w)
        pj == ProjectFileOf(w)
        globalContent == IF Exists(s, g) THEN s.disk[g] ELSE <<>>
        projectContent == IF Exists(s, pj) THEN s.disk[pj] ELSE <<>>
    IN  IF ~Exists(s, g) /\ ~Exists(s, pj) THEN [st |-> s, success |-> FALSE]
        ELSE [st |-> WriteFile(s, TargetFileOf(w), MergeContent(globalContent, projectContent)),
              success |-> TRUE]

\* syncGlobalToGitHub(globalFilePath)
SyncGlobalToGitHub(s, globalFilePath, pushOk) ==
    IF ~Exists(s, globalFilePath) THEN Ret(s, "not-found", FALSE)
    ELSE SyncFile(s, globalFilePath, <<TARGET_FILE>>, FALSE, pushOk)

RECURSIVE PropagateTo(_, _, _)
\* The loop of propagateGlobalToWorkspaces over the registry.
PropagateTo(s, ws, exclude) ==
    IF ws = <<>> THEN s
    ELSE IF Head(ws) = exclude THEN PropagateTo(s, Tail(ws), exclude)
    ELSE LET copied == WriteFile(s, GlobalFileOf(Head(ws)), s.disk[REPO_DIR \o <<TARGET_FILE>>])
         IN  PropagateTo(SyncWorkspace(copied, Head(ws)).st, Tail(ws), exclude)

\* propagateGlobalToWorkspaces(excludeWorkspacePath)
PropagateGlobalToWorkspaces(s, exclude) ==
    IF ~Exists(s, REPO_DIR \o <<TARGET_FILE>>) THEN Ret(s, "not-in-repo", FALSE)
    ELSE Ret(PropagateTo(s, s.workspaces, exclude), "none", FALSE)

\* The repository path a global skill file is stored at.
SkillTargetByBasename(skillFilePath) == << <<"skills">>, Basename(skillFilePath) >>
SkillTarget(skillFilePath) ==
    Join(<< <<"skills">> >>, Relative(GlobalSkillsPath, skillFilePath))

AgentTarget(agentFilePath) == << <<"agents">>, Basename(agentFilePath) >>

\* syncSkillToGitHub(skillFilePath)
SyncSkillToGitHub(s, skillFilePath, pushOk) ==
    IF ~Exists(s, skillFilePath) THEN Ret(s, "not-found", FALSE)
    ELSE IF ~StartsWith(Flat(skillFilePath), Flat(GlobalSkillsPath)) THEN Ret(s, "none", FALSE)
    ELSE SyncFile(s, skillFilePath, SkillTarget(skillFilePath), FALSE, pushOk)

\* syncAgentToGitHub(agentFilePath)
SyncAgentToGitHub(s, agentFilePath, pushOk) ==
    IF ~Exists(s, agentFilePath) THEN Ret(s, "not-found", FALSE)
    ELSE IF ~StartsWith(Flat(agentFilePath), Flat(GlobalAgentsPath)) THEN Ret(s, "none", FALSE)
    ELSE SyncFile(s, agentFilePath, AgentTarget(agentFilePath), FALSE, pushOk)

\* The answer of a removal: removed is the flag the code returns.
Removed(r) == [st |-> r.st, err |-> r.err, pushed |-> r.err = "none"]

\* removeAgentFromGitHub(agentFilePath)
RemoveAgentFromGitHub(s, agentFilePath, pushOk) ==
    LET targetPath == AgentTarget(agentFilePath)
        fullTargetPath == REPO_DIR \o targetPath
    IN  IF ~StartsWith(Flat(agentFilePath), Flat(GlobalAgentsPath)) THEN Ret(s, "none", FALSE)
        ELSE IF ~Exists(s, fullTargetPath) THEN Ret(s, "none", FALSE)
        ELSE Removed(SyncFile(Unlink(Log(s, "unlink", targetPath), fullTargetPath),
                              fullTargetPath, targetPath, TRUE, pushOk))

\* removeSkillFromGitHub(skillFilePath)
RemoveSkillFromGitHub(s, skillFilePath, pushOk) ==
    LET targetPath == SkillTarget(skillFilePath)
        fullTargetPath == REPO_DIR \o targetPath
        skillDir == Dirname(targetPath)
        s1 == Unlink(Log(s, "unlink", targetPath), fullTargetPath)
        s2 == IF skillDir \in s1.dirs /\ DirEmpty(s1, skillDir)
              THEN [Log(s1, "rmdir", skillDir) EXCEPT !.dirs = s1.dirs \ {skillDir}]
              ELSE s1
    IN  IF ~StartsWith(Flat(skillFilePath), Flat(GlobalSkillsPath)) THEN Ret(s, "none", FALSE)
        ELSE IF ~Exists(s, fullTargetPath) THEN Ret(s, "none", FALSE)
        ELSE Removed(SyncFile(s2, fullTargetPath, targetPath, TRUE, pushOk))

RECURSIVE SyncEach(_, _)
\* The first loop of syncAll: every workspace regenerates its merged output.
SyncEach(s, ws) ==
    IF ws = <<>> THEN s ELSE SyncEach(SyncWorkspace(s, Head(ws)).st, Tail(ws))

\* syncAll(): errors of the push are collected, never thrown.
SyncAll(s, pushOk) ==
    LET s1 == SyncEach(s, s.workspaces)
        globalFile == GlobalFileOf(s.workspaces[1])
    IN  IF s.workspaces = <<>> THEN Ret(s, "no-workspaces", FALSE)
        ELSE IF Exists(s1, globalFile) THEN SyncGlobalToGitHub(s1, globalFile, pushOk)
        ELSE Ret(s1, "none", FALSE)

\* fs.readdirSync(globalSkillsPath): the directories of the global skills
\* root, and the manifests directly inside one of them.
SkillDirs(s) ==
    {p[Len(GlobalSkillsPath) + 1] :
        p \in {q \in DOMAIN s.disk :
                  Below(q, GlobalSkillsPath) /\ Len(q) > Len(GlobalSkillsPath) + 1}}
SkillFiles(s, skillDir) ==
    {q \in DOMAIN s.disk :
        /\ Dirname(q) = Append(GlobalSkillsPath, skillDir)
        /\ ToLowerCase(Basename(q)) = SkillManifestLower}

\* fs.readdirSync(globalAgentsPath).filter(file => file.endsWith('.md'))
AgentFiles(s) ==
    {q \in DOMAIN s.disk : Dirname(q) = GlobalAgentsPath /\ EndsWith(Basename(q), <<".md">>)}

\* The orders readdirSync can list a set of names in.
Listings(S) == {l \in [1..Cardinality(S) -> S] : \A x \in S : \E i \in DOMAIN l : l[i] = x}

\* A bulk sync that stops at the first item that fails.
StopAtFailure(rest, status) == IF status = "failed" THEN <<>> ELSE Tail(rest)

\* for (const item of items): the items still to visit after this one
Remaining(rest, status) == Tail(rest)

\* The results object of a bulk sync, and one more item recorded in it:
\* synced++ and a record, a 'skipped' record, or failed++, success = false
\* and a record.
NoResults == [success |-> TRUE, synced |-> 0, failed |-> 0, details |-> <<>>]
Recorded(results, name, status) ==
    [success |-> results.success /\ status # "failed",
     synced |-> results.synced + (IF status = "synced" THEN 1 ELSE 0),
     failed |-> results.failed + (IF status = "failed" THEN 1 ELSE 0),
     details |-> Append(results.details, [name |-> name, status |-> status])]

\* What the loop body makes of a call of syncSkillToGitHub / syncAgentToGitHub.
StatusOf(r) ==
    IF r.err # "none" THEN "failed" ELSE IF r.pushed THEN "synced" ELSE "skipped"

\* The call, as the observer sees it: the file and how the call settled.
Attempted(r, op, filePath) ==
    [r.st EXCEPT !.log = Append(r.st.log, [op |-> op, path |-> filePath,
                                           out |-> [err |-> r.err, pushed |-> r.pushed]])]

RECURSIVE SyncSkillDirs(_, _, _, _)
\* The loop of syncAllGlobalSkills over the skill directories.
SyncSkillDirs(s, skillDirs, pushOks, results) ==
    IF skillDirs = <<>> THEN [st |-> s, results |-> results]
    ELSE LET skillDir == Head(skillDirs)
             skillFiles == SkillFiles(s, skillDir)
             skillFilePath == CHOOSE f \in skillFiles : TRUE
             r == SyncSkillToGitHub(s, skillFilePath, Head(pushOks))
         IN  IF skillFiles = {}
             THEN SyncSkillDirs(s, Tail(skillDirs), Tail(pushOks),
                                Recorded(results, skillDir, "skipped"))
             ELSE SyncSkillDirs(Attempted(r, "syncSkillToGitHub", skillFilePath),
                                Remaining(skillDirs, StatusOf(r)), Tail(pushOks),
                                Recorded(results, skillDir, StatusOf(r)))

\* syncAllGlobalSkills(), the directories listed in the order skillDirs
SyncAllGlobalSkills(s, skillDirs, pushOks) ==
    IF ~\E q \in DOMAIN s.disk : Below(q, GlobalSkillsPath)
    THEN [st |-> s, results |-> [NoResults EXCEPT !.success = FALSE]]
    ELSE SyncSkillDirs(s, skillDirs, pushOks, NoResults)

RECURSIVE SyncAgentFiles(_, _, _, _)
\* The loop of syncAllGlobalAgents over the agent files.
SyncAgentFiles(s, agentFiles, pushOks, results) ==
    IF agentFiles = <<>> THEN [st |-> s, results |-> results]
    ELSE LET agentFilePath == Head(agentFiles)
             agentFile == Basename(agentFilePath)
             agentName == SubSeq(agentFile, 1, Len(agentFile) - 1)
             r == SyncAgentToGitHub(s, agentFilePath, Head(pushOks))
         IN  SyncAgentFiles(Attempted(r, "syncAgentToGitHub", agentFilePath),
                            Remaining(agentFiles, StatusOf(r)), Tail(pushOks),
                            Recorded(results, agentName, StatusOf(r)))

\* syncAllGlobalAgents(), the files listed in the order agentFiles
SyncAllGlobalAgents(s, agentFiles, pushOks) ==
    IF ~\E q \in DOMAIN s.disk : Below(q, GlobalAgentsPath)
    THEN [st |-> s, results |-> [NoResults EXCEPT !.success = FALSE]]
    ELSE SyncAgentFiles(s, agentFiles, pushOks, NoResults)

\* The pull a propagate method makes itself: it takes no options, so the
\* skipPull its callers pass is not looked at. in is how that pull goes.
OwnPull(s, in) == Pull(s, in.stashThrows, in.outs)

\* propagateFromGitHub() once its pull has settled: the repository's
\* CLAUDE.md to every workspace as CLAUDE-GLOBAL.md, merged output regenerated.
CopyRules(p) ==
    IF p.err # "none" THEN p
    ELSE IF ~Exists(p.st, REPO_DIR \o <<TARGET_FILE>>) THEN Done(p.st)
    ELSE Done(PropagateTo(p.st, p.st.workspaces, <<>>))

\* propagateFromGitHub(): its own pull, then the copies.
PropagateFromGitHub(s, in) ==
    IF ~Exists(s, REPO_DIR \o <<TARGET_FILE>>)
    THEN Failed(Log(s, "propagateFromGitHub", <<>>),
                <<"CLAUDE.md not found in GitHub repository">>)
    ELSE CopyRules(OwnPull(Log(s, "propagateFromGitHub", <<>>), in))

RECURSIVE CopyFiles(_, _, _, _)
\* fs.copyFileSync of every file of a set from below src to below dest.
CopyFiles(s, files, src, dest) ==
    IF files = {} THEN s
    ELSE LET f == CHOOSE f \in files : TRUE
         IN  CopyFiles(WriteFile(s, dest \o SubSeq(f, Len(src) + 1, Len(f)), s.disk[f]),
                       files \ {f}, src, dest)

\* propagateSkillsFromGitHub() once its pull has settled: copyDir of the
\* repository's skills directory over the global skills directory.
CopySkills(p) ==
    LET githubSkillsDir == REPO_DIR \o << <<"skills">> >>
    IN  IF p.err # "none" THEN p
        ELSE Done(CopyFiles(p.st, {q \in DOMAIN p.st.disk : Below(q, githubSkillsDir)},
                            githubSkillsDir, GlobalSkillsPath))

\* propagateSkillsFromGitHub(): its own pull, then the copies.
PropagateSkillsFromGitHub(s, in) ==
    IF << <<"skills">> >> \notin s.dirs THEN Done(Log(s, "propagateSkillsFromGitHub", <<>>))
    ELSE CopySkills(OwnPull(Log(s, "propagateSkillsFromGitHub", <<>>), in))

\* propagateAgentsFromGitHub() once its pull has settled: every .md file of
\* the repository's agents directory into the global agents directory.
CopyAgents(p) ==
    LET githubAgentsDir == REPO_DIR \o << <<"agents">> >>
    IN  IF p.err # "none" THEN p
        ELSE Done(CopyFiles(p.st, {q \in DOMAIN p.st.disk :
                                      /\ Dirname(q) = githubAgentsDir
                                      /\ EndsWith(Basename(q), <<".md">>)},
                            githubAgentsDir, GlobalAgentsPath))

\* propagateAgentsFromGitHub(): its own pull, then the copies.
PropagateAgentsFromGitHub(s, in) ==
    IF << <<"agents">> >> \notin s.dirs THEN Done(Log(s, "propagateAgentsFromGitHub", <<>>))
    ELSE CopyAgents(OwnPull(Log(s, "propagateAgentsFromGitHub", <<>>), in))

RECURSIVE AwaitEach(_, _, _)
\* The awaited calls of a bulk pull from the k-th on: git.pull(), then the
\* three propagations; the first that throws ends the sequence.
AwaitEach(r, ins, k) ==
    IF r.err # "none" \/ k > Len(ins) THEN r
    ELSE AwaitEach(CASE k = 1 -> Pull(Log(r.st, "git.pull", <<>>),
                                      ins[1].stashThrows, ins[1].outs)
                     [] k = 2 -> PropagateFromGitHub(r.st, ins[2])
                     [] k = 3 -> PropagateSkillsFromGitHub(r.st, ins[3])
                     [] OTHER -> PropagateAgentsFromGitHub(r.st, ins[4]),
                   ins, k + 1)

PullAndPropagate(s, ins) == AwaitEach(Done(s), ins, 1)

----------------------------------------------------------------------------
(* The watcher (lib/watcher.js) *)

AgentsMarker == <<".claude", "/", "agents">>

RECURSIVE FirstMatch(_, _)
FirstMatch(ws, filePath) ==
    IF ws = <<>> THEN Dirname(filePath)
    ELSE IF pathStartsWith(filePath, Head(ws)) THEN Head(ws)
    ELSE FirstMatch(Tail(ws), filePath)

\* _findWorkspaceForFile(filePath)
FindWorkspaceForFile(s, filePath) == FirstMatch(s.workspaces, filePath)

\* The handlers' global-or-local decisions.
isGlobalSkill(filePath) == pathStartsWith(filePath, GlobalSkillsPath)
isGlobalAgent(filePath) == pathStartsWith(filePath, GlobalAgentsPath)

\* The branch of the handlers' if-chain an event falls into.
Classify(filePath) ==
    LET fileName == Basename(filePath)
    IN  IF ToLowerCase(fileName) = SkillManifestLower
        THEN IF isGlobalSkill(filePath) THEN "global-skill" ELSE "local-skill"
        ELSE IF EndsWith(fileName, <<".md">>) /\ Includes(Flat(filePath), AgentsMarker)
        THEN IF isGlobalAgent(filePath) THEN "global-agent" ELSE "local-agent"
        ELSE IF fileName = GLOBAL_FILE THEN "shared-rule"
        ELSE IF fileName = PROJECT_FILE THEN "private-rule"
        ELSE "unrelated"

\* What a handler leaves for the observer: the event, the branch taken, the
\* answer of the syncer and the files as they were when the handler started.
Pre(s) == [disk |-> s.disk, dirs |-> s.dirs, index |-> s.index, head |-> s.head,
           remote |-> s.remote, stash |-> s.stash, marker |-> s.marker]
NoPre == [disk |-> <<>>, dirs |-> {}, index |-> <<>>, head |-> <<>>, remote |-> <<>>,
          stash |-> <<>>, marker |-> NoMarker]
NoLast == [ev |-> "none", path |-> <<>>, ws |-> <<>>, branch |-> "none", err |-> "none",
           pushed |-> FALSE, pre |-> NoPre]
Answer(s, ev, filePath, ws, branch, r) ==
    [r.st EXCEPT !.last = [ev |-> ev, path |-> filePath, ws |-> ws, branch |-> branch,
                           err |-> r.err, pushed |-> r.pushed, pre |-> Pre(s)]]
Fresh(s) == [s EXCEPT !.log = <<>>]

\* if (gitResult.pushed): whether the flow goes on to the other workspaces.
GitResultAny(gitResult) == TRUE
GitResultPushed(gitResult) == gitResult.pushed

\* change handler, globalFile branch: each step and what the handler prints
\* (console.log) before and after it.
SharedRuleChange(s, workspacePath, pushOk) ==
    LET r1 == SyncWorkspace(Called(s, "console.log", <<"Syncing CLAUDE-GLOBAL.md...">>),
                            workspacePath)
    IN  IF ~r1.success
        THEN Ret(Called(r1.st, "console.log", <<"Sync failed: ">>), "none", FALSE)
        ELSE LET s1 == Called(Called(r1.st, "console.log", <<"Local CLAUDE.md regenerated">>),
                              "console.log", <<"Pushing to GitHub...">>)
                 r2 == SyncGlobalToGitHub(s1, GlobalFileOf(workspacePath), pushOk)
             IN  IF r2.err # "none" THEN r2
                 ELSE IF ~GitResultPushed(r2)
                 THEN [r2 EXCEPT !.st = Called(r2.st, "console.log", <<"No changes to commit">>)]
                 ELSE LET s2 == Called(Called(r2.st, "console.log",
                                              <<"Successfully pushed to GitHub">>),
                                       "console.log", <<"Propagating to other workspaces...">>)
                          r3 == PropagateGlobalToWorkspaces(s2, workspacePath)
                      IN  [r3 EXCEPT !.pushed = TRUE]

\* catch (error) of the change handler: the error is printed, nothing else.
Caught(r) ==
    IF r.err = "none" THEN r
    ELSE [r EXCEPT !.st = Called(r.st, "console.log", <<"Error: ", r.err>>)]

\* finally { processingFiles.delete(filePath) }
FinallyOnReturn(r, filePath) ==
    IF r.err # "none" THEN r
    ELSE [r EXCEPT !.st.processingFiles = r.st.processingFiles \ {filePath}]
Finally(r, filePath) ==
    [r EXCEPT !.st.processingFiles = r.st.processingFiles \ {filePath}]

\* The timer's callback up to its finally: processingFiles.add(filePath),
\* the try and the catch.
TryChange(s, filePath, pushOk) ==
    LET workspacePath == FindWorkspaceForFile(s, filePath)
        branch == Classify(filePath)
        s0 == [Fresh(s) EXCEPT !.processingFiles = s.processingFiles \cup {filePath}]
        r == CASE branch = "global-skill" -> SyncSkillToGitHub(s0, filePath, pushOk)
               [] branch = "global-agent" -> SyncAgentToGitHub(s0, filePath, pushOk)
               [] branch = "shared-rule" -> SharedRuleChange(s0, workspacePath, pushOk)
               [] branch = "private-rule" ->
                      Ret(SyncWorkspace(s0, workspacePath).st, "none", FALSE)
               [] OTHER -> Ret(s0, "none", FALSE)
    IN  Caught(r)

\* watcher.on('change'), the event, the timer and the run taken as one.
OnChange(s, filePath, pushOk) ==
    IF filePath \in s.processingFiles
    THEN Answer(s, "change", filePath, <<>>, "skipped", Ret(Fresh(s), "none", FALSE))
    ELSE Answer(s, "change", filePath, FindWorkspaceForFile(s, filePath), Classify(filePath),
                Finally(TryChange(s, filePath, pushOk), filePath))

\* watcher.on('add')
OnAdd(s, filePath, pushOk) ==
    LET branch == Classify(filePath)
        r == CASE branch = "global-skill" -> SyncSkillToGitHub(Fresh(s), filePath, pushOk)
               [] branch = "global-agent" -> SyncAgentToGitHub(Fresh(s), filePath, pushOk)
               [] OTHER -> Ret(Fresh(s), "none", FALSE)
    IN  Answer(s, "add", filePath, <<>>, branch, r)

\* watcher.on('unlink')
OnUnlink(s, filePath, pushOk) ==
    LET branch == Classify(filePath)
        r == CASE branch = "global-skill" -> RemoveSkillFromGitHub(Fresh(s), filePath, pushOk)
               [] branch = "global-agent" -> RemoveAgentFromGitHub(Fresh(s), filePath, pushOk)
               [] OTHER -> Ret(Fresh(s), "none", FALSE)
    IN  Answer(s, "unlink", filePath, <<>>, branch, r)

----------------------------------------------------------------------------
(* Steps of the system around one daemon: the user's edits, the watcher's   *)
(* events, the commands, and another process taking the lock.               *)

MaxEdits == 2

lockRest == <<alive, lpc, tries, fnOut, wlRes>>

InstallFiles(s) ==
    /\ workspaces' = s.workspaces
    /\ disk' = s.disk
    /\ dirs' = s.dirs
    /\ index' = s.index
    /\ head' = s.head
    /\ remote' = s.remote
    /\ stash' = s.stash
    /\ marker' = s.marker
    /\ log' = s.log
    /\ last' = s.last
    /\ pending' = s.pending
    /\ processingFiles' = s.processingFiles

Install(s) == InstallFiles(s) /\ UNCHANGED watcherVars

\* The second run of a pair of runs, when one is followed: it takes the same
\* steps as the first.
NoRun == [followed |-> FALSE]
Second(t) ==
    IF shadow = NoRun THEN NoRun
    ELSE [t EXCEPT !.log = <<>>, !.last = NoLast]
RunOf(s) == [s EXCEPT !.log = <<>>, !.last = NoLast]

\* The user saves text c into one of the files.
UserWrites(paths, texts) ==
    \E p \in paths, c \in texts :
        /\ edits < MaxEdits
        /\ IF p \in DOMAIN disk THEN disk[p] # c ELSE TRUE
        /\ Install(WriteFile([State EXCEPT !.log = <<>>, !.last = NoLast], p, c))
        /\ shadow' = Second(WriteFile(shadow, p, c))
        /\ edits' = edits + 1
        /\ UNCHANGED lockRest

\* The user saves a private-rules file; the second run gets text c2 instead.
UserWritesPrivate(paths, texts) ==
    \E p \in paths, c \in texts, c2 \in texts :
        /\ edits < MaxEdits
        /\ IF p \in DOMAIN disk THEN disk[p] # c ELSE TRUE
        /\ shadow = NoRun => c2 = c
        /\ Install(WriteFile([State EXCEPT !.log = <<>>, !.last = NoLast], p, c))
        /\ shadow' = Second(WriteFile(shadow, p, c2))
        /\ edits' = edits + 1
        /\ UNCHANGED lockRest

\* The user deletes one of the files.
UserDeletes(paths) ==
    \E p \in paths :
        /\ edits < MaxEdits
        /\ p \in DOMAIN disk
        /\ Install(Unlink([State EXCEPT !.log = <<>>, !.last = NoLast], p))
        /\ shadow' = Second(Unlink(shadow, p))
        /\ edits' = edits + 1
        /\ UNCHANGED lockRest

\* The event the watcher is about to handle leaves the queue.
Taken(s, kind, p) == [s EXCEPT !.pending = s.pending \ {[kind |-> kind, path |-> p]}]

\* chokidar reports a change of a watched file and the handler runs.
WatcherChangeWith(paths, pushOks) ==
    \E p \in paths, pushOk \in pushOks :
        /\ [kind |-> "change", path |-> p] \in pending
        /\ Install(OnChange(Taken(State, "change", p), p, pushOk))
        /\ shadow' = Second(OnChange(Taken(shadow, "change", p), p, pushOk))
        /\ UNCHANGED <<lockRest, edits>>

\* The push, when the handler comes to it, gets through or does not.
WatcherChange(paths) == WatcherChangeWith(paths, BOOLEAN)

\* chokidar reports a new watched file and the handler runs.
WatcherAdd(paths) ==
    \E p \in paths, pushOk \in BOOLEAN :
        /\ [kind |-> "add", path |-> p] \in pending
        /\ Install(OnAdd(Taken(State, "add", p), p, pushOk))
        /\ shadow' = Second(OnAdd(Taken(shadow, "add", p), p, pushOk))
        /\ UNCHANGED <<lockRest, edits>>

\* chokidar reports that a watched file is gone and the handler runs.
WatcherUnlink(paths) ==
    \E p \in paths, pushOk \in BOOLEAN :
        /\ [kind |-> "unlink", path |-> p] \in pending
        /\ Install(OnUnlink(Taken(State, "unlink", p), p, pushOk))
        /\ shadow' = Second(OnUnlink(Taken(shadow, "unlink", p), p, pushOk))
        /\ UNCHANGED <<lockRest, edits>>

\* The sync command: syncer.syncAll()
RunSyncAll ==
    \E pushOk \in BOOLEAN :
        /\ Install(Answer(State, "syncAll", <<>>, <<>>, "none", SyncAll(Fresh(State), pushOk)))
        /\ shadow' = Second(SyncAll(shadow, pushOk).st)
        /\ UNCHANGED <<lockRest, edits>>

\* A caller hands a file to the gateway: git.syncFile(filePath, msg, target)
CallSyncFile(paths, targets) ==
    \E p \in paths, target \in targets, pushOk \in BOOLEAN :
        /\ Install(Answer(State, "syncFile", p, target, "none",
                          SyncFile(Fresh(State), p, target, FALSE, pushOk)))
        /\ UNCHANGED <<lockRest, edits, shadow>>

\* Another live process takes the lock, and gives it back.
OtherAcquires ==
    /\ marker = NoMarker
    /\ marker' = [pid |-> "watch", owner |-> "w1", old |-> FALSE]
    /\ log' = <<>>
    /\ last' = NoLast
    /\ UNCHANGED <<lockRest, workspaces, disk, dirs, index, head, remote, stash, edits, pending,
                   processingFiles, watcherVars, shadow>>

OtherReleases ==
    /\ marker # NoMarker
    /\ marker' = Release
    /\ log' = <<>>
    /\ last' = NoLast
    /\ UNCHANGED <<lockRest, workspaces, disk, dirs, index, head, remote, stash, edits, pending,
                   processingFiles, watcherVars, shadow>>

\* The other process keeps the lock for longer than LOCK_TIMEOUT_MS.
OtherLingers ==
    /\ marker # NoMarker
    /\ ~marker.old
    /\ marker' = [marker EXCEPT !.old = TRUE]
    /\ log' = <<>>
    /\ last' = NoLast
    /\ UNCHANGED <<lockRest, workspaces, disk, dirs, index, head, remote, stash, edits, pending,
                   processingFiles, watcherVars, shadow>>

\* The files of the model, as functions from paths to contents.
Files(ps, c) == [p \in ps |-> c]
Empty == [p \in {} |-> <<>>]

\* The part of Init every specification shares.
SyncInit(registry, files, tree) ==
    /\ workspaces = registry
    /\ disk = files @@ [q \in {REPO_DIR \o r : r \in DOMAIN tree} |-> tree[RepoRel(q)]]
    /\ dirs = UNION {Prefixes(Dirname(r)) : r \in DOMAIN tree}
    /\ index = tree
    /\ head = tree
    /\ remote = tree
    /\ stash = <<>>
    /\ log = <<>>
    /\ last = NoLast
    /\ edits = 0
    /\ pending = {}
    /\ processingFiles = {}
    /\ currentWorkspaces = registry
    /\ debounceTimers = {}
    /\ running = {}

----------------------------------------------------------------------------
(* The lock alone: callers of withLock in two processes. *)

LockOnlyInit ==
    /\ LockInit
    /\ SyncInit(<<>>, Empty, Empty)
    /\ shadow = NoRun

SpecLock == LockOnlyInit /\ [][LockNext]_vars

----------------------------------------------------------------------------
(* Rules files: two registered workspaces whose shared rules are in the     *)
(* repository, the user editing shared and private rules, the watcher.      *)

WA == << <<"w">> >>
WB == << <<"w", "2">> >>
Registries == {<<WA, WB>>, <<WB, WA>>}

Texts == {<<"a">>, <<"b">>}
Privates == {<<"p">>, <<"q">>}

SharedPaths == {GlobalFileOf(WA), GlobalFileOf(WB)}
PrivatePaths == {ProjectFileOf(WA), ProjectFileOf(WB)}

\* Every workspace in sync with the repository: shared rules "a".
RulesDisk ==
    [q \in SharedPaths |-> <<"a">>] @@ [q \in PrivatePaths |-> <<"p">>]
    @@ [q \in {TargetFileOf(WA), TargetFileOf(WB)} |-> MergeContent(<<"a">>, <<"p">>)]
CanonTree == (<<TARGET_FILE>> :> <<"a">>)

RulesInit ==
    /\ LockInit
    /\ \E registry \in Registries : SyncInit(registry, RulesDisk, CanonTree)
    /\ shadow = NoRun

RulesNext ==
    \/ UserWrites(SharedPaths, Texts)
    \/ UserWritesPrivate(PrivatePaths, Privates)
    \/ WatcherChange(SharedPaths \cup PrivatePaths)
    \/ OtherAcquires
    \/ OtherReleases

SpecRules == RulesInit /\ [][RulesNext]_vars

\* The merged output the files of workspace w call for.
MergedOf(d, w) ==
    MergeContent(IF GlobalFileOf(w) \in DOMAIN d THEN d[GlobalFileOf(w)] ELSE <<>>,
                 IF ProjectFileOf(w) \in DOMAIN d THEN d[ProjectFileOf(w)] ELSE <<>>)

\* C5: once the change handler has finished (without an error) processing an
\* edit that set workspace W's shared-rules file to c, W's merged output
\* starts with c, the repository's canonical shared file equals c, and every
\* other registered workspace has c as its shared-rules file and its merged
\* output merged again.
C5_SharedRulePropagated ==
    (last.ev = "change" /\ last.branch = "shared-rule" /\ last.err = "none") =>
        LET W == Dirname(last.path)
            c == last.pre.disk[last.path]
        IN  /\ StartsWith(disk[TargetFileOf(W)], c)
            /\ disk[REPO_DIR \o <<TARGET_FILE>>] = c
            /\ head[<<TARGET_FILE>>] = c
            /\ \A i \in 1..Len(workspaces) :
                 workspaces[i] # W =>
                    /\ disk[GlobalFileOf(workspaces[i])] = c
                    /\ disk[TargetFileOf(workspaces[i])] = MergedOf(disk, workspaces[i])

\* C6: handling a private-rule change in workspace W rewrites only W's merged
\* output, which then includes the new private content; no lock is taken, no
\* repository call is made, and the clone, the remote and every other file
\* are as they were.
C6_PrivateChangeLocal ==
    (last.ev = "change" /\ last.branch = "private-rule") =>
        LET W == Dirname(last.path)
        IN  /\ Includes(disk[TargetFileOf(W)], disk[last.path])
            /\ log = <<>>
            /\ DOMAIN disk = DOMAIN last.pre.disk
            /\ \A q \in DOMAIN disk : q # TargetFileOf(W) => disk[q] = last.pre.disk[q]
            /\ index = last.pre.index /\ head = last.pre.head /\ remote = last.pre.remote

----------------------------------------------------------------------------
(* Skills and agents: global ones, a workspace's own, and a workspace whose *)
(* directory name begins like the global skills root.                       *)

WS == Home \o << <<".claude">>, <<"skills", "-ws">> >>
ResRegistry == <<WA, WS>>

GS1 == GlobalSkillsPath \o << <<"s1">>, <<"SKILL", ".md">> >>
GS2 == GlobalSkillsPath \o << <<"s1">>, <<"sub">>, <<"SKILL", ".md">> >>
GA1 == GlobalAgentsPath \o << <<"a1", ".md">> >>
LS1 == WS \o << <<".claude">>, <<"skills">>, <<"s1">>, <<"SKILL", ".md">> >>
LA1 == WA \o << <<".claude">>, <<"agents">>, <<"a1", ".md">> >>
ResPaths == {GS1, GS2, GA1, LS1, LA1}

\* One global skill, already in the repository.
ResDisk == (GS1 :> <<"a">>) @@ (GlobalFileOf(WA) :> <<"a">>) @@ (TargetFileOf(WA) :> <<"a">>)
ResTree ==
    (<<TARGET_FILE>> :> <<"a">>) @@ (<< <<"skills">>, <<"s1">>, <<"SKILL", ".md">> >> :> <<"a">>)

ResInit ==
    /\ LockInit
    /\ SyncInit(ResRegistry, ResDisk, ResTree)
    /\ shadow = NoRun

ResNext ==
    \/ UserWrites(ResPaths, Texts)
    \/ UserDeletes(ResPaths)
    \/ WatcherChange(ResPaths)
    \/ WatcherAdd(ResPaths)
    \/ WatcherUnlink(ResPaths)
    \/ OtherAcquires
    \/ OtherReleases

SpecRes == ResInit /\ [][ResNext]_vars

\* The calls that change the clone.
MutatingOps == {"mkdir", "copy", "add", "rm", "unlink", "rmdir", "commit", "push"}

\* Call i of the handler was made between an acquire and its release.
HeldAt(l, i) ==
    \E j \in 1..(i - 1) :
        /\ l[j].op = "acquire"
        /\ \A k \in (j + 1)..(i - 1) : l[k].op # "release"

\* C2: every call that changes the clone (a copy or a removal of a file in
\* it, stage, remove, commit, push) is made while the caller holds the lock.
C2_MutationsUnderLock ==
    \A i \in 1..Len(log) : log[i].op \in MutatingOps => HeldAt(log, i)

\* The repository path of a global skill manifest <root>/<id>/<manifest>
\* and of a global agent file, as the specification names them.
IsGlobalSkill(p) == Below(p, GlobalSkillsPath) /\ ToLowerCase(Basename(p)) = SkillManifestLower
IsGlobalAgent(p) == Below(p, GlobalAgentsPath) /\ EndsWith(Basename(p), <<".md">>)
RepoPathOf(p) ==
    IF IsGlobalSkill(p) THEN << <<"skills">> >> \o SubSeq(p, Len(GlobalSkillsPath) + 1, Len(p))
    ELSE << <<"agents">>, p[Len(p)] >>

C8_PushedUnderItsPath ==
    (/\ last.ev \in {"change", "add"}
     /\ IsGlobalSkill(last.path) \/ IsGlobalAgent(last.path)
     /\ last.path \in DOMAIN disk
     /\ last.err = "none") =>
        LET target == RepoPathOf(last.path)
        IN  /\ (REPO_DIR \o target) \in DOMAIN disk
            /\ disk[REPO_DIR \o target] = disk[last.path]
            /\ target \in DOMAIN head /\ head[target] = disk[last.path]
            /\ last.pushed => (target \in DOMAIN remote /\ remote[target] = disk[last.path])

\* A nested global skill was pushed for the first time.
C8_Witness ==
    /\ last.ev = "add" /\ last.path = GS2 /\ last.pushed
    /\ << <<"skills">>, <<"s1">>, <<"sub">>, <<"SKILL", ".md">> >> \in DOMAIN remote
    /\ << <<"skills">>, <<"s1">>, <<"sub">>, <<"SKILL", ".md">> >> \notin DOMAIN last.pre.remote

\* A skill or an agent of a registered workspace, outside the global roots.
IsLocalResource(p) ==
    /\ ~Below(p, GlobalSkillsPath) /\ ~Below(p, GlobalAgentsPath)
    /\ \E i \in 1..Len(workspaces) :
         \/ /\ Below(p, workspaces[i] \o << <<".claude">>, <<"skills">> >>)
            /\ ToLowerCase(Basename(p)) = SkillManifestLower
         \/ /\ Below(p, workspaces[i] \o << <<".claude">>, <<"agents">> >>)
            /\ EndsWith(Basename(p), <<".md">>)

\* C9: an event of a local skill or agent takes no lock, calls nothing on
\* the repository and leaves the clone and the remote as they were.
C9_LocalEventsStayLocal ==
    (last.ev \in {"change", "add", "unlink"} /\ IsLocalResource(last.path)) =>
        /\ log = <<>>
        /\ Worktree(State) = Worktree(last.pre)
        /\ dirs = last.pre.dirs
        /\ index = last.pre.index /\ head = last.pre.head /\ remote = last.pre.remote

----------------------------------------------------------------------------
(* The gateway called directly: callers hand files to git.syncFile while    *)
(* another process may hold the lock.                                       *)

ElsewherePrivate == << <<"x">>, PROJECT_FILE >>
GatewayPaths == {GlobalFileOf(WA), ProjectFileOf(WA), ElsewherePrivate}
GatewayTargets == {<<>>, <<TARGET_FILE>>}

GatewayDisk ==
    (GlobalFileOf(WA) :> <<"a">>) @@ (ProjectFileOf(WA) :> <<"p">>)
    @@ (TargetFileOf(WA) :> MergeContent(<<"a">>, <<"p">>))

GatewayInit ==
    /\ LockInit
    /\ SyncInit(<<WA>>, GatewayDisk, CanonTree)
    /\ shadow = NoRun

GatewayNext ==
    \/ UserWrites({GlobalFileOf(WA)}, Texts)
    \/ UserWritesPrivate({ProjectFileOf(WA)}, Privates)
    \/ CallSyncFile(GatewayPaths, GatewayTargets)
    \/ OtherAcquires
    \/ OtherReleases
    \/ OtherLingers

SpecGateway == GatewayInit /\ [][GatewayNext]_vars

\* The handler's calls left the clone, its index, its commits and the remote
\* as they were.
RepoUntouched ==
    /\ \A i \in 1..Len(log) : log[i].op \notin MutatingOps
    /\ Worktree(State) = Worktree(last.pre)
    /\ dirs = last.pre.dirs
    /\ index = last.pre.index /\ head = last.pre.head /\ remote = last.pre.remote

----------------------------------------------------------------------------
(* Two runs of the same operations that differ in what the private-rules    *)
(* files hold.                                                               *)

WG == GlobalAgentsPath
NIRegistries == {<<WA>>, <<WG>>}
NIShared == {GlobalFileOf(WA), GlobalFileOf(WG)}
NIPrivate == {ProjectFileOf(WA), ProjectFileOf(WG)}
NIMerged == {TargetFileOf(WA), TargetFileOf(WG)}

NIDisk ==
    [q \in NIShared |-> <<"a">>] @@ [q \in NIPrivate |-> <<"p">>]
    @@ [q \in NIMerged |-> MergeContent(<<"a">>, <<"p">>)]

NIInit ==
    /\ LockInit
    /\ \E registry \in NIRegistries : SyncInit(registry, NIDisk, CanonTree)
    /\ shadow = RunOf(State)

NINext ==
    \/ UserWrites(NIShared, Texts)
    \/ UserWritesPrivate(NIPrivate, Privates)
    \/ WatcherChange(NIShared \cup NIPrivate \cup NIMerged)
    \/ RunSyncAll

SpecNI == NIInit /\ [][NINext]_vars

\* C4: the clone and the remote of two runs that differ only in the contents
\* of private-rules files are the same.
C4_PrivateNeverReachesRepo ==
    /\ Worktree(State) = Worktree(shadow)
    /\ index = shadow.index
    /\ head = shadow.head
    /\ remote = shadow.remote

----------------------------------------------------------------------------
(* lib/lock.js: what acquire() throws. *)

\* The lock file, and the error acquire() throws when its budget is spent.
LOCK_FILE == Home \o << <<".config">>, <<"claude-sync">>, <<"git", ".lock">> >>
LockTimeoutMessage ==
    <<"Could not acquire git lock after 30 seconds. ",
      "Another claude-sync process may be stuck. ", "Delete ">> \o Flat(LOCK_FILE)
    \o <<" manually if this persists.">>

----------------------------------------------------------------------------
(* Claims on the lock. *)

InCS(c) == alive[ProcOf(c)] /\ lpc[c] \in {"held", "finally"}

\* C1: at every instant at most one caller is between a successful acquire()
\* and its release().
C1_MutualExclusion == Cardinality({c \in Callers : InCS(c)}) <= 1

\* C10: once withLock has settled - fn returned, fn threw, or acquire() gave
\* up - no marker written by this call exists, and withLock settled the way
\* fn did.
C10_WithLockReleases ==
    \A c \in Callers :
        /\ lpc[c] \in {"settled", "timeout"} => marker.owner # c
        /\ lpc[c] = "settled" => wlRes[c] = fnOut[c] /\ fnOut[c] \in {"return", "throw"}

\* withLock has settled after fn threw while this call's marker was on disk
\* until the cleanup.
C10_Witness ==
    \E c \in Callers : lpc[c] = "settled" /\ fnOut[c] = "throw" /\ marker = NoMarker

----------------------------------------------------------------------------
(* The lock under the scheduling of the event loop: a caller that can take   *)
(* a step of acquire() again and again takes it. How long the action under   *)
(* the lock runs is not constrained.                                          *)

\* Every caller calls withLock once.
LockOnceNext ==
    \/ \E c \in Callers : CallWithLock(c)
    \/ \E c \in Callers : AcquireTry(c)
    \/ \E c \in Callers : AcquireIsStale(c)
    \/ \E c \in Callers : AcquireReclaim(c)
    \/ \E c \in Callers : AcquireSleep(c)
    \/ \E c \in Callers : FnSettles(c)
    \/ \E c \in Callers : WithLockFinally(c)
    \/ MarkerAges
    \/ \E p \in Procs : ProcessDies(p)

SpecLockFair ==
    /\ LockOnlyInit
    /\ [][LockOnceNext]_vars
    /\ \A c \in Callers : SF_vars(AcquireStep(c))

InAcquire == {"try", "stale", "reclaim", "sleep"}

\* C11: acquire() terminates: a caller inside acquire() of a live process
\* comes to return from it or to the lock-timeout error, which names the
\* lock file; its loop counter never passes LOCK_MAX_RETRIES.
C11_AcquireTerminates ==
    /\ [](\A c \in Callers :
            /\ tries[c] <= LOCK_MAX_RETRIES
            /\ lpc[c] = "timeout" =>
                  /\ wlRes[c] = "lock-timeout"
                  /\ tries[c] = LOCK_MAX_RETRIES
                  /\ Includes(LockTimeoutMessage, Flat(LOCK_FILE)))
    /\ \A c \in Callers :
          (lpc[c] \in InAcquire) ~> (lpc[c] \in {"held", "timeout"} \/ ~alive[ProcOf(c)])

\* A caller ran out of retries while a live caller of the other process kept
\* a fresh marker.
C11_Witness ==
    \E c \in Callers :
        /\ lpc[c] = "timeout"
        /\ marker # NoMarker /\ ~marker.old /\ marker.owner # c
        /\ alive[marker.pid] /\ lpc[marker.owner] = "held"

\* Nobody but c is inside acquire().
NoCompetitor(c) == \A d \in Callers \ {c} : lpc[d] \notin InAcquire

\* C12: a marker older than LOCK_TIMEOUT_MS is reclaimable: a caller of a
\* live process that enters acquire() while such a marker lies there comes
\* to hold the lock within its retries, unless another caller competes.
C12_StaleMarkerReclaimed ==
    \A c \in Callers :
        (/\ lpc[c] = "try" /\ tries[c] = 0
         /\ marker # NoMarker /\ marker.old
         /\ NoCompetitor(c))
        ~> (lpc[c] = "held" \/ ~alive[ProcOf(c)] \/ ~NoCompetitor(c))

\* A caller holds the lock after one reclaim of the marker of a caller who
\* still has not released.
C12_Witness ==
    \E c \in Callers, d \in Callers :
        /\ c # d
        /\ lpc[c] = "held" /\ marker.owner = c /\ tries[c] = 1
        /\ lpc[d] = "held"
        /\ NoCompetitor(c) /\ NoCompetitor(d)

\* C13: two callers of one process never both hold the lock: while one is
\* between its successful acquire() and its release(), no acquire() of
\* another caller of that process returns successfully.
C13_SameProcessExclusive ==
    \A c \in Callers, d \in Callers :
        c # d /\ ProcOf(c) = ProcOf(d) => ~(InCS(c) /\ InCS(d))

----------------------------------------------------------------------------
(* pull(): the clone holds the merged rules and an agent; syncs cut short   *)
(* leave it dirty, other machines push, another process may hold the lock.  *)

AgentG == << <<"agents">>, <<"g", ".md">> >>
AgentN == << <<"agents">>, <<"n", ".md">> >>
PullTree == CanonTree @@ (AgentG :> <<"g">>)

\* How a call of git pull can settle.
PullDone == Returned(<<"Already up to date.">>)
NoHost == Thrown(<<"fatal: ", "Could not resolve host", ": github.com">>)
NoRemote == Thrown(<<"fatal: ", "Could not read from remote", " repository.">>)
Unrelated == Thrown(<<"fatal: ", "refusing to merge unrelated histories">>)
PullOutcomes == {PullDone, NoHost, NoRemote, Unrelated}

\* How the successive calls of git pull can settle.
PullScripts == [1..(maxRetries + 1) -> PullOutcomes]
PullScriptsFew ==
    [1..(maxRetries + 1) -> {PullDone, NoHost}] \cup {[k \in 1..(maxRetries + 1) |-> Unrelated]}

PullInit ==
    /\ LockInit
    /\ SyncInit(<<WA>>, GatewayDisk, PullTree)
    /\ shadow = NoRun

\* A sync that did not reach its commit: the process was killed after the
\* copy or after git add, or a removal unlinked the clone's file and then
\* found the lock taken.
InterruptedSync ==
    /\ edits < MaxEdits
    /\ edits' = edits + 1
    /\ UNCHANGED <<lockRest, shadow>>
    /\ LET t == [State EXCEPT !.log = <<>>, !.last = NoLast]
           rules == REPO_DIR \o <<TARGET_FILE>>
       IN  \/ /\ t.disk[rules] # <<"b">>
              /\ Install(WriteFile(t, rules, <<"b">>))
           \/ /\ t.index[<<TARGET_FILE>>] # <<"b">>
              /\ Install([WriteFile(t, rules, <<"b">>) EXCEPT
                             !.index = With(t.index, <<TARGET_FILE>>, <<"b">>)])
           \/ /\ ~Exists(t, REPO_DIR \o AgentN)
              /\ Install(WriteFile(MkdirP(t, Dirname(AgentN)), REPO_DIR \o AgentN, <<"n">>))
           \/ /\ Exists(t, REPO_DIR \o AgentG)
              /\ Install(Unlink(t, REPO_DIR \o AgentG))

\* Another machine pushes new shared rules to origin/main.
OthersPush ==
    /\ edits < MaxEdits
    /\ remote = head
    /\ edits' = edits + 1
    /\ remote' = With(remote, <<TARGET_FILE>>, <<"c">>)
    /\ log' = <<>>
    /\ last' = NoLast
    /\ UNCHANGED <<lockVars, workspaces, disk, dirs, index, head, stash, pending,
                   processingFiles, watcherVars, shadow>>

\* A command or the daemon calls git.pull().
CallPull(stashes, scripts) ==
    \E stashThrows \in stashes, outs \in scripts :
        LET r == Pull(Fresh(State), stashThrows, outs)
            s == Answer(State, "pull", <<>>, <<>>, "none", r)
            msg == IF r.err = "lock-timeout" THEN LockTimeoutMessage ELSE r.msg
        IN  /\ Install([s EXCEPT !.last = s.last @@ [stashThrows |-> stashThrows, outs |-> outs,
                                                     msg |-> msg]])
            /\ UNCHANGED <<lockRest, edits, shadow>>

PullNext ==
    \/ InterruptedSync
    \/ OthersPush
    \/ CallPull(BOOLEAN, PullScriptsFew)
    \/ OtherAcquires
    \/ OtherReleases
    \/ OtherLingers

SpecPull == PullInit /\ [][PullNext]_vars

----------------------------------------------------------------------------
(* The retries of a wrapped call: pull() on a clean clone, git pull         *)
(* settling in every way it can.                                            *)

RetryNext ==
    \/ OthersPush
    \/ CallPull({FALSE}, PullScripts)

SpecRetry == PullInit /\ [][RetryNext]_vars

----------------------------------------------------------------------------
(* Claims on pull() and on the retries. *)

\* The handler that ran last was pull(), and it got the lock.
PullRan == last.ev = "pull" /\ log # <<>> /\ log[1].op = "acquire"

\* Where in the handler's calls op was called.
OpsAt(op) == {i \in 1..Len(log) : log[i].op = op}

\* C14: a pull() that finds the working copy dirty calls git stash before
\* any git pull and, once git pull was called, git stash pop after the last
\* of its attempts, whether they ended in success or in failure; a pull()
\* that finds it clean calls neither.
C14_StashAroundPull ==
    PullRan =>
        IF Dirty(last.pre)
        THEN /\ Cardinality(OpsAt("stash")) = 1
             /\ \A i \in OpsAt("stash"), j \in OpsAt("pull") : i < j
             /\ ~last.stashThrows =>
                   /\ OpsAt("pull") # {}
                   /\ Cardinality(OpsAt("stash pop")) = 1
                   /\ \A j \in OpsAt("pull") \cup OpsAt("sleep") \cup OpsAt("_retryWithBackoff"),
                         k \in OpsAt("stash pop") : j < k
             /\ last.stashThrows => OpsAt("pull") = {} /\ OpsAt("stash pop") = {}
        ELSE OpsAt("stash") = {} /\ OpsAt("stash pop") = {}

\* A dirty clone was stashed, git pull failed through all its retries, and
\* the stash was popped: pull() rejects with git pull's error.
C14_Witness ==
    /\ PullRan /\ Dirty(last.pre)
    /\ Cardinality(OpsAt("pull")) = maxRetries + 1
    /\ \E k \in OpsAt("stash pop") : log[k].out.ok
    /\ last.msg = NoHost.val
    /\ Worktree(State) = Worktree(last.pre)

\* A stash entry for what the working copy held at pull()'s entry, if git
\* stash had tracked changes to save.
EntryOf(t) ==
    IF TrackedTree(t) = t.head /\ t.index = t.head THEN <<>>
    ELSE <<[base |-> t.head, tree |-> TrackedTree(t)]>>

\* C15: when the git stash pop of pull() fails, pull() rejects with an error
\* that spells out the commands to recover with, the stash holds what was
\* stashed on top of what it held before, files git does not track are in
\* the working copy as they were, and the lock is released.
C15_PopFailureRecoverable ==
    (PullRan /\ \E k \in OpsAt("stash pop") : ~log[k].out.ok) =>
        /\ last.err = "failed"
        /\ Includes(last.msg, <<"git stash pop">>)
        /\ Includes(last.msg, <<"cd ">> \o Flat(REPO_DIR))
        /\ stash = EntryOf(last.pre) \o last.pre.stash
        /\ \A r \in (DOMAIN Worktree(last.pre)) \ Tracked(last.pre) :
              r \in DOMAIN Worktree(State) /\ Worktree(State)[r] = Worktree(last.pre)[r]
        /\ marker = NoMarker
        /\ log[Len(log)].op = "release"

\* The clone's rules were edited to "b", another machine pushed "c", and the
\* pop after the pull ran into the conflict: the edit is in the stash.
C15_Witness ==
    /\ PullRan
    /\ \E k \in OpsAt("stash pop") : log[k].out = Thrown(PopConflict)
    /\ head[<<TARGET_FILE>>] = <<"c">>
    /\ Len(stash) = 1 /\ stash[1].tree[<<TARGET_FILE>>] = <<"b">>
    /\ Includes(last.msg, <<"Stash pop failed">>)

\* The call threw an error whose message holds one of the transient patterns.
ThrewTransient(o) == ~o.ok /\ \E pat \in TransientPatterns : Includes(o.val, pat)

\* C16: when git pull throws errors of the transient patterns K times, K up
\* to maxRetries, and then returns, _retryWithBackoff returns what that call
\* returned, git pull was called K + 1 times, there was one pause between
\* every two calls, and no pause was shorter than the one before.
C16_RetryUntilSuccess ==
    \A K \in 0..maxRetries :
        (/\ PullRan
         /\ \A k \in 1..K : ThrewTransient(last.outs[k])
         /\ last.outs[K + 1].ok) =>
            /\ \E i \in OpsAt("_retryWithBackoff") : log[i].out = last.outs[K + 1]
            /\ Cardinality(OpsAt("pull")) = K + 1
            /\ Cardinality(OpsAt("sleep")) = K
            /\ \A i \in OpsAt("sleep") : log[i - 1].op = "pull" /\ log[i + 1].op = "pull"
            /\ \A i \in OpsAt("sleep"), j \in OpsAt("sleep") : i < j => log[i].ms <= log[j].ms
            /\ last.err = "none"
            /\ head = last.pre.remote

\* git pull failed twice for want of the network and got through the third
\* time, after pauses of one and two seconds.
C16_Witness ==
    /\ PullRan
    /\ last.outs[1] = NoHost /\ last.outs[2] = NoRemote /\ last.outs[3] = PullDone
    /\ Cardinality(OpsAt("pull")) = 3
    /\ \E i \in OpsAt("sleep"), j \in OpsAt("sleep") :
          log[i].ms = baseDelayMs /\ log[j].ms = 2 * baseDelayMs
    /\ last.err = "none"

\* C17: when the first error git pull throws holds none of the transient
\* patterns, git pull is called once, there is no pause, _retryWithBackoff
\* throws that error and pull() rejects with it.
C17_NonTransientOnce ==
    (/\ PullRan
     /\ ~last.outs[1].ok
     /\ \A pat \in TransientPatterns : ~Includes(last.outs[1].val, pat)) =>
        /\ Cardinality(OpsAt("pull")) = 1
        /\ OpsAt("sleep") = {}
        /\ \E i \in OpsAt("_retryWithBackoff") : log[i].out = last.outs[1]
        /\ last.err = "failed" /\ last.msg = last.outs[1].val

\* git pull refused to merge, and would have got through had it been called
\* again.
C17_Witness ==
    /\ PullRan
    /\ last.outs[1] = Unrelated /\ last.outs[2] = PullDone
    /\ last.msg = Unrelated.val
    /\ head = last.pre.head

----------------------------------------------------------------------------
(* syncFile on a clone that syncs cut short have left dirty. *)

DirtySyncNext ==
    \/ InterruptedSync
    \/ CallSyncFile(GatewayPaths, GatewayTargets)
    \/ OtherAcquires
    \/ OtherReleases
    \/ OtherLingers

SpecDirtySync == PullInit /\ [][DirtySyncNext]_vars

\* The name syncFile stages the file under.
StagedAs == IF last.ws = <<>> THEN <<Basename(last.path)>> ELSE last.ws

\* C18: when the file syncFile copied and staged is what the last commit
\* holds under that name, and the index held nothing else to commit,
\* syncFile answers pushed = false without an error, calls neither git
\* commit nor git push, and the commits and the remote are as they were.
C18_NothingStagedNoOp ==
    (/\ last.ev = "syncFile"
     /\ log # <<>> /\ log[1].op = "acquire"
     /\ Basename(last.path) # PROJECT_FILE
     /\ last.path \in DOMAIN last.pre.disk
     /\ With(last.pre.index, StagedAs, last.pre.disk[last.path]) = last.pre.head) =>
        /\ last.err = "none"
        /\ ~last.pushed
        /\ \A i \in 1..Len(log) : log[i].op \notin {"commit", "push"}
        /\ head = last.pre.head
        /\ remote = last.pre.remote

----------------------------------------------------------------------------
(* mergeContent: the user saves shared and private rules of one workspace,  *)
(* empty, padded with white space or holding an earlier merge, and syncAll  *)
(* regenerates the merged file.                                             *)

MergeTexts ==
    {<<>>, <<"a">>, <<" ", "a", "\n">>, <<"\n">>,
     <<"a">> \o Separator \o <<"p">> \o <<"\n">>}

MergeInit ==
    /\ LockInit
    /\ SyncInit(<<WA>>, GatewayDisk, CanonTree)
    /\ shadow = NoRun

MergeNext ==
    \/ UserWrites({GlobalFileOf(WA)}, MergeTexts)
    \/ UserWritesPrivate({ProjectFileOf(WA)}, MergeTexts)
    \/ RunSyncAll

SpecMerge == MergeInit /\ [][MergeNext]_vars

\* C19: the merged file syncAll writes is the shared rules when the private
\* rules are empty, the private rules when the shared rules are empty, empty
\* when both are, and otherwise the trimmed shared rules, the separator, the
\* trimmed private rules and a newline.
C19_MergeEquations ==
    last.ev = "syncAll" =>
        LET sh == disk[GlobalFileOf(WA)]
            pr == disk[ProjectFileOf(WA)]
            merged == disk[TargetFileOf(WA)]
        IN  /\ pr = <<>> => merged = sh
            /\ sh = <<>> => merged = pr
            /\ (sh = <<>> /\ pr = <<>>) => merged = <<>>
            /\ (sh # <<>> /\ pr # <<>>) =>
                  merged = Trim(sh)
                           \o <<"\n", "\n", "---", "\n", "\n",
                                "# Project-Specific Configuration", "\n", "\n">>
                           \o Trim(pr) \o <<"\n">>

\* Padded shared rules were merged with private rules: the padding is gone.
C19_Witness ==
    /\ last.ev = "syncAll"
    /\ disk[GlobalFileOf(WA)] = <<" ", "a", "\n">>
    /\ disk[ProjectFileOf(WA)] = <<"p">>
    /\ disk[TargetFileOf(WA)] = <<"a">> \o Separator \o <<"p", "\n">>

\* Where t occurs in s.
Occurrences(s, t) == {i \in 0..(Len(s) - Len(t)) : SubSeq(s, i + 1, i + Len(t)) = t}

\* C20: the merge of non-empty shared and private rules holds the trimmed
\* shared rules, the separator and the trimmed private rules in this order,
\* and holds the separator once.
C20_SeparatorOnce ==
    (/\ last.ev = "syncAll"
     /\ disk[GlobalFileOf(WA)] # <<>>
     /\ disk[ProjectFileOf(WA)] # <<>>) =>
        LET merged == disk[TargetFileOf(WA)]
        IN  /\ Includes(merged, Trim(disk[GlobalFileOf(WA)]) \o Separator
                                \o Trim(disk[ProjectFileOf(WA)]))
            /\ Cardinality(Occurrences(merged, Separator)) = 1


----------------------------------------------------------------------------
(* acquire() on a create conflict. *)

\* Caller c leaves the stale branch of acquire(): its release() has run.
Reclaims(c) == lpc[c] = "reclaim" /\ lpc'[c] = "try"

\* Caller c learns from _isStale() that the marker is not stale.
JudgesFresh(c) == lpc[c] = "stale" /\ lpc'[c] # "stale" /\ ~IsStale(marker, alive)

\* C29: on a create conflict acquire() deletes the marker only if that
\* marker is older than the threshold or written by a process that is gone;
\* a marker that is neither stays in place and the caller goes to sleep
\* before its next attempt.
C29_DeletesOnlyStale ==
    [][\A c \in Callers :
          /\ (Reclaims(c) /\ marker # NoMarker) => (marker.old \/ ~alive[marker.pid])
          /\ JudgesFresh(c) => (marker' = marker /\ lpc'[c] = "sleep")]_vars


----------------------------------------------------------------------------
(* _retryWithBackoff when every attempt fails. *)

\* The pauses of the run that ended last, in the order they were made.
Pauses == [k \in 1..Cardinality(OpsAt("sleep")) |->
             log[CHOOSE i \in OpsAt("sleep") :
                    Cardinality({j \in OpsAt("sleep") : j < i}) = k - 1].ms]

\* C30: _retryWithBackoff always settles, after at most maxRetries + 1 calls
\* of the wrapped operation; when every call throws an error of the transient
\* patterns the operation is called exactly maxRetries + 1 times, the pauses
\* are baseDelayMs, 2 * baseDelayMs, 4 * baseDelayMs ... (the pause after
\* attempt i is baseDelayMs * 2^i), and the error thrown to the caller is the
\* one of the last call.
C30_RetryTerminates ==
    PullRan =>
        /\ Cardinality(OpsAt("_retryWithBackoff")) = 1
        /\ Cardinality(OpsAt("pull")) \in 1..(maxRetries + 1)
        /\ (\A k \in 1..(maxRetries + 1) : ThrewTransient(last.outs[k])) =>
              /\ Cardinality(OpsAt("pull")) = maxRetries + 1
              /\ Pauses = [k \in 1..maxRetries |-> baseDelayMs * (2 ^ (k - 1))]
              /\ \A i \in OpsAt("_retryWithBackoff") :
                    log[i].out = last.outs[maxRetries + 1]
              /\ last.err = "failed"
              /\ last.msg = last.outs[maxRetries + 1].val

\* git pull never got through: the host was unknown three times and the
\* remote unreadable the fourth, and pull() rejected with that last error
\* after pauses of one, two and four seconds.
C30_Witness ==
    /\ PullRan
    /\ last.outs = <<NoHost, NoHost, NoHost, NoRemote>>
    /\ Cardinality(OpsAt("pull")) = 4
    /\ Pauses = <<1000, 2000, 4000>>
    /\ last.err = "failed" /\ last.msg = NoRemote.val


----------------------------------------------------------------------------
(* The classifier, on every path at or below a watched root. *)

\* The watched roots: the global skills and agents directories and the
\* registered workspaces.
\* WX: a workspace kept next to the global agents directory.
WX == Home \o << <<".claude">>, <<"agents", "-ws">> >>
ClassRegistry == <<WA, WS, WX>>
ClassRoots == {GlobalSkillsPath, GlobalAgentsPath, WA, WS, WX}
ClassSegs ==
    {<<".claude">>, <<"skills">>, <<"agents">>, <<"s1">>, <<"SKILL", ".md">>,
     <<"Skill", ".md">>, <<"a1", ".md">>, GLOBAL_FILE, PROJECT_FILE, TARGET_FILE,
     <<"notes", ".txt">>}
ClassTails ==
    {<<>>} \cup {<<a>> : a \in ClassSegs} \cup {<<a, b>> : a \in ClassSegs, b \in ClassSegs}
ClassPaths == {r \o t : r \in ClassRoots, t \in ClassTails}

ClassifyInit ==
    /\ LockInit
    /\ SyncInit(ResRegistry, ResDisk, ResTree)
    /\ shadow = NoRun

\* A handler's if-chain is given a path: the branch it takes and the two
\* decisions it can make on the way.
HandlerClassifies(paths) ==
    \E p \in paths :
        /\ last' = [ev |-> "classify", path |-> p, branch |-> Classify(p),
                    isGlobalSkill |-> isGlobalSkill(p),
                    isGlobalAgent |-> isGlobalAgent(p)]
        /\ UNCHANGED <<lockVars, workspaces, disk, dirs, index, head, remote, stash, log,
                       edits, pending, processingFiles, watcherVars, shadow>>

ClassifyNext == HandlerClassifies(ClassPaths)

SpecClassify == ClassifyInit /\ [][ClassifyNext]_vars

Categories ==
    {"shared-rule", "private-rule", "global-skill", "local-skill", "global-agent",
     "local-agent", "unrelated"}

\* C21: every path at or below a watched root falls into exactly one of the
\* seven categories, and for the path that is the global skills root, or the
\* global agents root, itself the global-or-local decision answers global.
C21_ClassifierTotal ==
    last.ev = "classify" =>
        /\ Cardinality({c \in Categories : last.branch = c}) = 1
        /\ last.path = GlobalSkillsPath => last.isGlobalSkill
        /\ last.path = GlobalAgentsPath => last.isGlobalAgent

\* The chain was given the global agents root itself: no branch of it is
\* for that path, and the decision, had it been asked, is global.
C21_Witness ==
    /\ last.ev = "classify"
    /\ last.path = GlobalAgentsPath
    /\ last.branch = "unrelated"
    /\ last.isGlobalAgent /\ ~last.isGlobalSkill


----------------------------------------------------------------------------
(* Bulk sync: syncAllGlobalSkills and syncAllGlobalAgents over the global   *)
(* directories, while the user edits them and the pushes get through or not. *)

GS3 == GlobalSkillsPath \o << <<"s2">>, <<"Skill", ".md">> >>
GA2 == GlobalAgentsPath \o << <<"a2", ".md">> >>
BulkPaths == {GS1, GS2, GS3, GA1, GA2}

\* The sync of the global skills is asked for.
RunSyncAllGlobalSkills ==
    \E skillDirs \in Listings(SkillDirs(State)) :
        \E pushOks \in [1..Len(skillDirs) -> BOOLEAN] :
            LET b == SyncAllGlobalSkills(Fresh(State), skillDirs, pushOks)
                s == Answer(State, "syncAllGlobalSkills", <<>>, <<>>, "none",
                            Ret(b.st, "none", FALSE))
                files == {i \in 1..Len(skillDirs) : SkillFiles(State, skillDirs[i]) # {}}
            IN  /\ Install([s EXCEPT !.last = s.last @@
                               [results |-> b.results, items |-> skillDirs,
                                toSync |-> Cardinality(files)]])
                /\ UNCHANGED <<lockRest, edits, shadow>>

\* The sync of the global agents is asked for.
RunSyncAllGlobalAgents ==
    \E agentFiles \in Listings(AgentFiles(State)) :
        \E pushOks \in [1..Len(agentFiles) -> BOOLEAN] :
            LET b == SyncAllGlobalAgents(Fresh(State), agentFiles, pushOks)
                s == Answer(State, "syncAllGlobalAgents", <<>>, <<>>, "none",
                            Ret(b.st, "none", FALSE))
            IN  /\ Install([s EXCEPT !.last = s.last @@
                               [results |-> b.results,
                                items |-> [i \in 1..Len(agentFiles) |->
                                             SubSeq(Basename(agentFiles[i]), 1,
                                                    Len(Basename(agentFiles[i])) - 1)],
                                toSync |-> Len(agentFiles)]])
                /\ UNCHANGED <<lockRest, edits, shadow>>

BulkNext ==
    \/ UserWrites(BulkPaths, Texts)
    \/ UserDeletes(BulkPaths)
    \/ RunSyncAllGlobalSkills
    \/ RunSyncAllGlobalAgents
    \/ OtherAcquires
    \/ OtherReleases

SpecBulk == ResInit /\ [][BulkNext]_vars

\* A bulk sync ran last; the single-item syncs it made, those that threw,
\* and the records of one status in what it returned.
BulkRan == last.ev \in {"syncAllGlobalSkills", "syncAllGlobalAgents"}
Attempts == {i \in 1..Len(log) : log[i].op \in {"syncSkillToGitHub", "syncAgentToGitHub"}}
Threw == {i \in Attempts : log[i].out.err # "none"}
Records(status) ==
    {k \in 1..Len(last.results.details) : last.results.details[k].status = status}

\* The items of the directory have one record each, in the order listed,
\* and every item that has a file to sync was handed to the single-item sync.
EveryItemOnce ==
    /\ Len(last.results.details) = Len(last.items)
    /\ \A k \in 1..Len(last.items) : last.results.details[k].name = last.items[k]
    /\ Cardinality(Attempts) = last.toSync

\* C22: a bulk sync of N global resources of which M fail reports N - M
\* synced and M failed, attempts every item and records one outcome for each.
C22_BulkCounts ==
    BulkRan =>
        /\ last.results.failed = Cardinality(Threw)
        /\ last.results.synced = Len(last.items) - Cardinality(Threw)
        /\ EveryItemOnce

\* C22, as the code has it: of N items of which M fail, M are reported
\* failed, those whose push went through are reported synced, and the others
\* (nothing to push, no manifest in the directory) are recorded as skipped,
\* so that synced + skipped = N - M; every item is attempted and has one
\* record, whatever happened to the items before it.
C22_BulkCountsWithSkipped ==
    BulkRan =>
        /\ last.results.failed = Cardinality(Threw)
        /\ last.results.failed = Cardinality(Records("failed"))
        /\ last.results.synced = Cardinality({i \in Attempts : log[i].out.pushed})
        /\ last.results.synced = Cardinality(Records("synced"))
        /\ last.results.synced + Cardinality(Records("skipped"))
              = Len(last.items) - Cardinality(Threw)
        /\ EveryItemOnce

\* Two skills were synced: the push of the first failed, the second was
\* attempted all the same and went through.
C22_Witness ==
    /\ last.ev = "syncAllGlobalSkills"
    /\ Len(last.items) = 2
    /\ last.results.details[1].status = "failed"
    /\ last.results.details[2].status = "synced"
    /\ last.results.synced = 1 /\ last.results.failed = 1


----------------------------------------------------------------------------
(* Bulk pull: the daemon's start-up (lib/daemon.js) and the pull command.   *)

\* error.message of what a pull or a propagation threw.
ErrorMessage(r) == IF r.err = "lock-timeout" THEN LockTimeoutMessage ELSE r.msg

\* A workspace directory exists when a file lies in it.
DirExists(s, d) == \E q \in DOMAIN s.disk : Below(q, d)

\* setupWatchers(): the registered workspaces that exist, the chokidar
\* watcher (ignoreInitial: the files as they are raise no event), the scan
\* of the existing skills and agents, and the handlers attached.
SetupWatchers(s, pushOk) ==
    LET valid == {i \in 1..Len(s.workspaces) : DirExists(s, s.workspaces[i])}
        s1 == [Log(s, "chokidar.watch", <<>>) EXCEPT !.pending = {}]
        skillDirs == CHOOSE l \in Listings(SkillDirs(s1)) : TRUE
        b1 == SyncAllGlobalSkills(s1, skillDirs, [i \in 1..Len(skillDirs) |-> pushOk])
        agentFiles == CHOOSE l \in Listings(AgentFiles(b1.st)) : TRUE
        b2 == SyncAllGlobalAgents(b1.st, agentFiles, [i \in 1..Len(agentFiles) |-> pushOk])
    IN  IF valid = {} THEN Failed(s, <<"No valid workspaces found on disk.">>)
        ELSE Done(Log(b2.st, "_attachEventHandlers", <<>>))

\* A start-up that gives up when the pull failed.
AfterPullGiveUp(r) == IF r.err = "none" THEN "watch" ELSE "exit"

\* The inner try/catch of startDaemon: whatever the pull and the
\* propagations did, watcher.start() is next.
AfterPull(r) == "watch"

PulledMessage == <<"Successfully pulled latest changes">>
CouldNotPull(msg) == <<"Could not pull from GitHub: ">> \o msg

\* startDaemon() once the pull and the propagations have settled as r: the
\* outcome is printed and the watcher started.
WatchAfter(r, pushOk) ==
    LET logged == IF r.err = "none" THEN PulledMessage ELSE CouldNotPull(ErrorMessage(r))
        s1 == Called(r.st, "console.log", logged)
        w == IF AfterPull(r) = "watch" THEN SetupWatchers(s1, pushOk)
             ELSE Failed(s1, ErrorMessage(r))
    IN  [st |-> w.st, err |-> r.err, pushed |-> FALSE,
         msg |-> IF r.err = "none" THEN <<>> ELSE ErrorMessage(r),
         watching |-> w.err = "none"]

\* startDaemon()
StartDaemon(s, ins, pushOk) == WatchAfter(PullAndPropagate(s, ins), pushOk)

\* The pull command: the same pull and propagations; an error ends the
\* command.
PullCommand(s, ins) ==
    LET r == PullAndPropagate(s, ins)
    IN  [st |-> r.st, err |-> r.err, pushed |-> FALSE,
         msg |-> IF r.err = "none" THEN <<>> ELSE ErrorMessage(r),
         watching |-> FALSE]

\* How the four pulls of a bulk pull can go: all get through, or the k-th
\* finds the network down for all its attempts.
NetDown == [k \in 1..(maxRetries + 1) |-> NoHost]
AllDone == [k \in 1..(maxRetries + 1) |-> PullDone]
BulkInputs ==
    {[i \in 1..4 |-> [stashThrows |-> FALSE, outs |-> IF i = k THEN NetDown ELSE AllDone]] :
        k \in 0..4}

SkillInRepo == << <<"skills">>, <<"s1">>, <<"SKILL", ".md">> >>
DaemonTree == PullTree @@ (SkillInRepo :> <<"a">>)

DaemonInit ==
    /\ LockInit
    /\ SyncInit(<<WA>>, GatewayDisk, DaemonTree)
    /\ shadow = NoRun

\* The daemon is started.
RunStartDaemon ==
    \E ins \in BulkInputs, pushOk \in BOOLEAN :
        \E r \in {StartDaemon(Fresh(State), ins, pushOk)} :
            LET s == Answer(State, "startDaemon", <<>>, <<>>, "none", r)
            IN  /\ Install([s EXCEPT !.last = s.last @@ [msg |-> r.msg, watching |-> r.watching]])
                /\ UNCHANGED <<lockRest, edits, shadow>>

\* The pull command is run.
RunPullCommand ==
    \E ins \in BulkInputs :
        \E r \in {PullCommand(Fresh(State), ins)} :
            LET s == Answer(State, "pullCommand", <<>>, <<>>, "none", r)
            IN  /\ Install([s EXCEPT !.last = s.last @@ [msg |-> r.msg, watching |-> r.watching]])
                /\ UNCHANGED <<lockRest, edits, shadow>>

DaemonNext ==
    \/ InterruptedSync
    \/ OthersPush
    \/ RunStartDaemon
    \/ OtherAcquires
    \/ OtherReleases

SpecDaemon == DaemonInit /\ [][DaemonNext]_vars

PullCommandNext ==
    \/ InterruptedSync
    \/ OthersPush
    \/ RunPullCommand
    \/ OtherAcquires
    \/ OtherReleases

SpecPullCommand == DaemonInit /\ [][PullCommandNext]_vars

\* A bulk pull ran last; the calls it made before the watcher was created.
BulkPullRan == last.ev \in {"startDaemon", "pullCommand"}
PullPhase == {i \in 1..Len(log) : \A j \in 1..i : log[j].op # "chokidar.watch"}
FanOutOps == {"propagateFromGitHub", "propagateSkillsFromGitHub", "propagateAgentsFromGitHub"}

\* C23: a bulk pull takes the lock once, makes at most one stash and one
\* stash pop, calls git pull through one _retryWithBackoff, and nothing of
\* this is done once the fan-out has begun.
C23_OnePullUpFront ==
    BulkPullRan =>
        /\ Cardinality(OpsAt("acquire") \cap PullPhase) <= 1
        /\ Cardinality(OpsAt("_retryWithBackoff") \cap PullPhase) <= 1
        /\ Cardinality(OpsAt("stash") \cap PullPhase) <= 1
        /\ Cardinality(OpsAt("stash pop") \cap PullPhase) <= 1
        /\ \A i \in PullPhase, j \in PullPhase :
              (log[i].op \in FanOutOps /\ i < j) =>
                  log[j].op \notin {"acquire", "status", "stash", "pull", "stash pop"}



\* The start-up logged that the pull failed, and why.
FailureLogged ==
    \E i \in OpsAt("console.log") : log[i].out = CouldNotPull(last.msg)

\* C24: however the initial pull and the fan-out of the daemon's start-up
\* end (they get through, the network is down, the lock is not to be had,
\* the stash cannot be restored), the Change Detector is started afterwards,
\* and a failure was logged before that.
C24_StartupToleratesPullFailure ==
    last.ev = "startDaemon" =>
        /\ last.watching
        /\ \E i \in OpsAt("console.log"), j \in OpsAt("_attachEventHandlers") : i < j
        /\ last.err # "none" => FailureLogged

\* The start-up found local changes it could not restore over what it had
\* pulled, said so, and went on to watch.
C24_Witness ==
    /\ last.ev = "startDaemon"
    /\ last.err = "failed"
    /\ Includes(last.msg, <<"Stash pop failed">>)
    /\ FailureLogged
    /\ last.watching

----------------------------------------------------------------------------
(* Shutdown: the daemon and the foreground watch sync the shared rules of a *)
(* workspace through withLock, step by step, and the daemon is signalled.   *)

ShutdownDisk == (GlobalFileOf(WA) :> <<"b">>) @@ GatewayDisk

ShutdownInit ==
    /\ LockInit
    /\ SyncInit(<<WA>>, ShutdownDisk, CanonTree)
    /\ shadow = NoRun

\* The first half of the action syncFile passes to withLock, up to the
\* await of git status: the copy into the clone and git add.
SyncStages(c) ==
    /\ Runnable(c)
    /\ lpc[c] = "held"
    /\ fnOut[c] = "none"
    /\ LET staged == CopyAndAdd([State EXCEPT !.log = <<>>], GlobalFileOf(WA), <<TARGET_FILE>>)
       IN  Install(staged.st)
    /\ fnOut' = [fnOut EXCEPT ![c] = "staged"]
    /\ UNCHANGED <<alive, lpc, tries, wlRes, edits, shadow>>

\* The second half: nothing to commit, or git commit and the retried push,
\* and the action settles.
SyncCommits(c) ==
    \E pushOk \in BOOLEAN :
        /\ Runnable(c)
        /\ lpc[c] = "held"
        /\ fnOut[c] = "staged"
        /\ LET t == [State EXCEPT !.log = <<>>]
               r == IF ~Dirty(t) THEN Ret(t, "none", FALSE) ELSE CommitAndPush(t, pushOk)
           IN  /\ Install(r.st)
               /\ fnOut' = [fnOut EXCEPT ![c] = IF r.err = "none" THEN "return" ELSE "throw"]
        /\ lpc' = [lpc EXCEPT ![c] = "finally"]
        /\ UNCHANGED <<alive, tries, wlRes, edits, shadow>>

\* The listeners of lib/daemon.js: on SIGINT and SIGTERM lock.release() and
\* process.exit(0), on exit lock.release(). They run between two callbacks
\* of the event loop, and the process is gone when they are done.
Signals == {"SIGINT", "SIGTERM"}
Shutdown(p) ==
    \E sig \in Signals :
        /\ alive[p]
        /\ \A c \in Callers : ProcOf(c) = p => lpc[c] \notin MidSync
        /\ marker' = Release
        /\ alive' = [alive EXCEPT ![p] = FALSE]
        /\ log' = <<>>
        /\ last' = [NoLast EXCEPT !.ev = sig]
        /\ UNCHANGED <<lpc, tries, fnOut, wlRes, workspaces, disk, dirs, index, head, remote,
                       stash, edits, pending, processingFiles, watcherVars, shadow>>

ShutdownNext ==
    \/ \E c \in Callers : CallWithLock(c)
    \/ \E c \in Callers : AcquireTry(c)
    \/ \E c \in Callers : AcquireIsStale(c)
    \/ \E c \in Callers : AcquireReclaim(c)
    \/ \E c \in Callers : AcquireSleep(c)
    \/ \E c \in Callers : SyncStages(c)
    \/ \E c \in Callers : SyncCommits(c)
    \/ \E c \in Callers : WithLockFinally(c)
    \/ Shutdown("daemon")

SpecShutdown == ShutdownInit /\ [][ShutdownNext]_vars

\* C25: when the daemon has exited on a signal, none of its callers was
\* left inside withLock: no action was cut between its steps (staged and not
\* committed) or before withLock's release.
C25_NoHalfAppliedMutation ==
    ~alive["daemon"] =>
        \A c \in Callers : ProcOf(c) = "daemon" =>
            /\ lpc[c] \notin {"held", "finally"}
            /\ fnOut[c] # "staged"

\* C26: the shutdown of the daemon deletes the marker when the daemon wrote
\* it, and leaves a marker of another process as it is.
C26_ReleasesOwnLockOnly ==
    [][(alive["daemon"] /\ ~alive'["daemon"]) =>
          marker' = IF marker.pid = "daemon" THEN NoMarker ELSE marker]_vars


----------------------------------------------------------------------------
(* The shared-rule flow of the change handler, step by step: the user edits *)
(* and deletes rules files, the watcher handles the change events, another  *)
(* process takes the lock. Workspace WB has no private rules.               *)

FlowDisk == (TargetFileOf(WB) :> <<"a">>) @@ Without(RulesDisk, ProjectFileOf(WB))

FlowInit ==
    /\ LockInit
    /\ \E registry \in Registries : SyncInit(registry, FlowDisk, CanonTree)
    /\ shadow = NoRun

FlowNext ==
    \/ UserWrites(SharedPaths, Texts)
    \/ UserDeletes(SharedPaths \cup PrivatePaths)
    \/ WatcherChange(SharedPaths)
    \/ OtherAcquires
    \/ OtherReleases

SpecFlow == FlowInit /\ [][FlowNext]_vars

\* Where in the log the handler printed a line, and where it called git.
Said(line) == {i \in OpsAt("console.log") : log[i].out = line}
GitCalls == {i \in 1..Len(log) : log[i].op \in MutatingOps \cup {"acquire", "release"}}
Regenerating == Said(<<"Syncing CLAUDE-GLOBAL.md...">>)
PushStep == Said(<<"Pushing to GitHub...">>)
FanOut == Said(<<"Propagating to other workspaces...">>)
Reported == Said(<<"Error: ", last.err>>) \cup Said(<<"Sync failed: ">>)
               \cup Said(<<"No changes to commit">>)

\* The files of d that belong to workspace w.
FilesOf(d, w) == [q \in {GlobalFileOf(w), ProjectFileOf(w), TargetFileOf(w)} \cap DOMAIN d |-> d[q]]

SharedRuleFlowRan == last.ev = "change" /\ last.branch = "shared-rule"

C28_FailureHaltsOnlyItsFlow ==
    /\ last.ev = "change" => last.branch # "skipped"
    /\ (last.ev = "change" /\ last.err # "none") =>
          /\ processingFiles = {}
          /\ Said(<<"Error: ", last.err>>) = {Len(log)}
          /\ \A e \in pending : \A pushOk \in BOOLEAN :
                e.kind = "change" =>
                    LET next == OnChange(Taken(State, "change", e.path), e.path, pushOk)
                    IN  /\ next.last.branch = Classify(e.path)
                        /\ next.processingFiles = {}

\* A handler failed while the change of another file was waiting.
C28_Witness ==
    /\ last.ev = "change" /\ last.err \in {"lock-timeout", "push-failed", "not-found"}
    /\ processingFiles = {}
    /\ \E e \in pending : e.kind = "change" /\ e.path # last.path


----------------------------------------------------------------------------
(* A commit whose push failed, and the calls of syncFile after it. *)

\* C38: when the clone held a commit that was never pushed (an earlier push
\* failed), a call of syncFile that returns without an error leaves the
\* remote at the clone's last commit: nothing committed stays unpushed.
C38_NoCommitStranded ==
    (last.ev = "syncFile" /\ last.err = "none" /\ last.pre.head # last.pre.remote) =>
        remote = head


----------------------------------------------------------------------------
(* Who deletes the lock marker. *)

\* The processes that act in a step: those of the callers that move, and
\* the one that exits.
Acting ==
    {ProcOf(c) : c \in {d \in Callers : lpc'[d] # lpc[d]}}
        \cup {p \in Procs : alive[p] /\ ~alive'[p]}

\* C36: a step that deletes the marker is taken by the process that wrote
\* it, or the marker was stale (older than the threshold, or its writer
\* gone): release() in withLock's cleanup, in acquire()'s stale branch and in
\* the exit and signal listeners never deletes the fresh marker of another
\* live process.
C36_DeletedByOwnerOrStale ==
    [][(marker # NoMarker /\ marker' = NoMarker) =>
          (IsStale(marker, alive) \/ \A p \in Acting : p = marker.pid)]_vars



----------------------------------------------------------------------------
(* The order of the handlers' if-chain, on the paths the watcher reports. *)

\* Two consecutive segments of p are ".claude" and "agents".
HasAgentsSegment(p) ==
    \E i \in 1..(Len(p) - 1) : p[i] = <<".claude">> /\ p[i + 1] = <<"agents">>

\* The category the stated precedence gives a path.
ByPrecedence(p) ==
    IF ToLowerCase(Basename(p)) = SkillManifestLower
    THEN {"global-skill", "local-skill"}
    ELSE IF EndsWith(Basename(p), <<".md">>) /\ HasAgentsSegment(p)
    THEN {"global-agent", "local-agent"}
    ELSE IF Basename(p) = GLOBAL_FILE THEN {"shared-rule"}
    ELSE IF Basename(p) = PROJECT_FILE THEN {"private-rule"}
    ELSE {"unrelated"}

\* C31: a watched path is classified by precedence: the skill manifest name
\* (whatever its case) first, then a markdown file with the agents segment in
\* its path, then the shared-rules name, then the private-rules name, and
\* anything else is unrelated.
C31_Precedence ==
    (last.ev = "classify" /\ Watched([workspaces |-> ClassRegistry], last.path)) =>
        last.branch \in ByPrecedence(last.path)



----------------------------------------------------------------------------
(* One edit of a shared-rules file and the events that follow from it: the *)
(* workspaces start in sync with the repository, each with or without      *)
(* private rules; every push gets through and nobody else holds the lock.  *)

LoopTexts == {<<"b">>, <<"c">>, <<"a", "b">>}

LoopDisks ==
    {[q \in SharedPaths |-> <<"a">>] @@ [q \in priv |-> <<"p">>]
       @@ [q \in {TargetFileOf(WA), TargetFileOf(WB)} |->
             MergeContent(<<"a">>, IF ProjectFileOf(Dirname(q)) \in priv THEN <<"p">> ELSE <<>>)]
     : priv \in SUBSET PrivatePaths}

LoopInit ==
    /\ LockInit
    /\ \E registry \in Registries, d \in LoopDisks : SyncInit(registry, d, CanonTree)
    /\ shadow = NoRun

\* The one external edit.
ExternalEdit == edits = 0 /\ UserWrites(SharedPaths, LoopTexts)

LoopNext ==
    \/ ExternalEdit
    \/ WatcherChangeWith(SharedPaths, {TRUE})

SpecLoop == LoopInit /\ [][LoopNext]_vars

\* Nothing is left to handle.
Quiescent == pending = {} /\ processingFiles = {}

\* C39: after one external edit of a shared-rules file the handlers of the
\* events the fan-out's own writes cause commit nothing, push nothing and fan
\* nothing out, and when nothing is left to handle the edit has been pushed
\* (once) and is the shared-rules file of every workspace.
C39_LoopTerminates ==
    /\ (last.ev = "change" /\ last.pre.remote # CanonTree) =>
          /\ ~last.pushed /\ FanOut = {}
          /\ head = last.pre.head /\ remote = last.pre.remote
    /\ (edits = 1 /\ Quiescent) =>
          /\ remote # CanonTree
          /\ \A q \in SharedPaths : disk[q] = remote[<<TARGET_FILE>>]

\* The part of C39 about the fan-out's own events alone.
C39_NoSecondPush ==
    (last.ev = "change" /\ last.pre.remote # CanonTree) =>
        /\ ~last.pushed /\ FanOut = {}
        /\ head = last.pre.head /\ remote = last.pre.remote

\* The event of a fan-out write was handled and found nothing to commit.
C39_FanOutEventHandled ==
    /\ last.ev = "change" /\ last.pre.remote # CanonTree
    /\ Said(<<"No changes to commit">>) # {}
    /\ Quiescent



----------------------------------------------------------------------------
(* The configuration watcher: the registry is edited, workspace directories *)
(* come and go, and reload() rebuilds the watched set.                      *)

CONFIG_FILE == Home \o << <<".config">>, <<"claude-sync">>, <<"config", ".json">> >>
ConfigEvent == [kind |-> "change", path |-> CONFIG_FILE]

RECURSIVE Keep(_, _)
\* newWorkspaces.filter(w => fs.existsSync(w.path))
Keep(s, ws) ==
    IF ws = <<>> THEN <<>>
    ELSE IF DirExists(s, Head(ws)) THEN <<Head(ws)>> \o Keep(s, Tail(ws))
    ELSE Keep(s, Tail(ws))

\* The registry taken as it is.
AllWorkspaces(s, ws) == ws
\* validNewWorkspaces of reload()
ValidWorkspaces(s, ws) == Keep(s, ws)

\* How often x occurs in the list.
Occurs(l, x) == Cardinality({i \in 1..Len(l) : l[i] = x})

\* JSON.stringify(oldPaths) === JSON.stringify(newPaths), both lists sorted:
\* the same paths, each as often.
SamePaths(old, new) ==
    /\ Len(old) = Len(new)
    /\ \A i \in 1..Len(old) : Occurs(old, old[i]) = Occurs(new, old[i])

\* reload(): what it leaves in the log and in currentWorkspaces.
Reload(s, current) ==
    LET valid == ValidWorkspaces(s, s.workspaces)
    IN  IF valid = <<>>
        THEN [st |-> Called(s, "console.log",
                            <<"No valid workspaces available, keeping current watchers">>),
              current |-> current]
        ELSE IF SamePaths(current, valid)
        THEN [st |-> Called(s, "console.log", <<"No workspace changes detected, continuing...">>),
              current |-> current]
        ELSE [st |-> Log(Log(Log(s, "watcher.close", <<>>), "chokidar.watch", <<>>),
                         "_attachEventHandlers", <<>>),
              current |-> valid]

\* The workspaces a registry can hold: no path twice (addWorkspace).
Pool == {WA, WB, WS}
PoolRegistries ==
    {<<>>} \cup UNION {{l \in [1..n -> Pool] : Cardinality({l[i] : i \in 1..n}) = n} :
                         n \in 1..Cardinality(Pool)}

\* Every workspace of the pool is a directory with its shared rules.
ReloadDisk == [q \in {GlobalFileOf(w) : w \in Pool} |-> <<"a">>]

ReloadInit ==
    /\ LockInit
    /\ \E registry \in PoolRegistries \ {<<>>} : SyncInit(registry, ReloadDisk, CanonTree)
    /\ shadow = NoRun

\* The registry is edited (claude-sync add or remove, or by hand).
RegistryEdited ==
    \E registry \in PoolRegistries :
        /\ registry # workspaces
        /\ workspaces' = registry
        /\ pending' = pending \cup {ConfigEvent}
        /\ last' = NoLast /\ log' = <<>>
        /\ UNCHANGED <<lockVars, disk, dirs, index, head, remote, stash, edits,
                       processingFiles, watcherVars, shadow>>

\* A workspace directory is deleted, or put back.
DirectoryChanged ==
    \E w \in Pool :
        /\ disk' = IF GlobalFileOf(w) \in DOMAIN disk THEN Without(disk, GlobalFileOf(w))
                                                      ELSE With(disk, GlobalFileOf(w), <<"a">>)
        /\ last' = NoLast /\ log' = <<>>
        /\ UNCHANGED <<lockVars, workspaces, dirs, index, head, remote, stash, edits, pending,
                       processingFiles, watcherVars, shadow>>

\* configWatcher.on('change'): reload() runs.
ConfigChange ==
    /\ ConfigEvent \in pending
    /\ \E r \in {Reload(Fresh(Taken(State, "change", CONFIG_FILE)), currentWorkspaces)} :
          /\ InstallFiles([r.st EXCEPT !.last = [ev |-> "reload", current |-> currentWorkspaces]])
          /\ currentWorkspaces' = r.current
    /\ UNCHANGED <<lockRest, edits, debounceTimers, running, shadow>>

ReloadNext ==
    \/ RegistryEdited
    \/ DirectoryChanged
    \/ ConfigChange

SpecReload == ReloadInit /\ [][ReloadNext]_vars

Range(l) == {l[i] : i \in 1..Len(l)}
Processed == last.ev = "reload" /\ ConfigEvent \notin pending
Untouched ==
    /\ OpsAt("watcher.close") = {} /\ OpsAt("chokidar.watch") = {}
    /\ currentWorkspaces = last.current
Rebuilt ==
    /\ Cardinality(OpsAt("watcher.close")) = 1 /\ Cardinality(OpsAt("chokidar.watch")) = 1
    /\ \A i \in OpsAt("watcher.close"), j \in OpsAt("chokidar.watch") : i < j
Existing == {w \in Range(workspaces) : DirExists(State, w)}

----------------------------------------------------------------------------
(* First start: the global skills and agents that are already on disk when *)
(* the watcher is set up, the pushes getting through or not, the lock free  *)
(* or held by another process.                                              *)

GAN == GlobalAgentsPath \o << <<"team">>, <<"a1", ".md">> >>
SweepPaths == {GS1, GS2, GS3, GA1, GA2, GAN}
SweepDisks == {GatewayDisk @@ [q \in have |-> <<"a">>] : have \in SUBSET SweepPaths}

SweepInit ==
    /\ LockInit
    /\ \E d \in SweepDisks : SyncInit(<<WA>>, d, CanonTree)
    /\ shadow = NoRun

\* watcher.start() comes to setupWatchers().
RunSetupWatchers ==
    \E pushOk \in BOOLEAN :
        \E r \in {SetupWatchers(Fresh(State), pushOk)} :
            /\ Install(Answer(State, "setupWatchers", <<>>, <<>>, "none",
                              Ret(r.st, r.err, FALSE)))
            /\ UNCHANGED <<lockRest, edits, shadow>>

SweepNext ==
    \/ RunSetupWatchers
    \/ OtherAcquires
    \/ OtherReleases

SpecSweep == SweepInit /\ [][SweepNext]_vars

SweepOps == OpsAt("syncSkillToGitHub") \cup OpsAt("syncAgentToGitHub")

\* C34: when setupWatchers() has returned, every single-item sync of the
\* sweep, the skills before the agents, was made before the handlers were
\* attached, and every global skill and global agent that was on disk is in
\* the repository.
C34_SweepBeforeWatching ==
    (last.ev = "setupWatchers" /\ last.err = "none") =>
        /\ \A i \in SweepOps, j \in OpsAt("_attachEventHandlers") : i < j
        /\ \A i \in OpsAt("syncSkillToGitHub"), j \in OpsAt("syncAgentToGitHub") : i < j
        /\ \A q \in DOMAIN last.pre.disk :
              /\ IsGlobalSkill(q) => SkillTarget(q) \in DOMAIN remote
              /\ IsGlobalAgent(q) => AgentTarget(q) \in DOMAIN remote

\* The part of C34 about the order alone.
C34_SweepThenHandlers ==
    (last.ev = "setupWatchers" /\ last.err = "none") =>
        /\ Cardinality(OpsAt("_attachEventHandlers")) = 1
        /\ \A i \in SweepOps, j \in OpsAt("_attachEventHandlers") : i < j
        /\ \A i \in OpsAt("syncSkillToGitHub"), j \in OpsAt("syncAgentToGitHub") : i < j



----------------------------------------------------------------------------
(* The watcher event by event: chokidar reports an event, the debounce      *)
(* timer of a change runs out, a handler's awaited work returns. Every push *)
(* gets through and nobody else holds the lock; the user edits one shared-  *)
(* rules file and the global skills.                                        *)

WatchRegistry == <<WB, WA>>
WatchDisk == RulesDisk @@ (GS1 :> <<"a">>)
WatchEdited == {GlobalFileOf(WA), GS1, GS3}
WatchReported == WatchEdited \cup SharedPaths

WatchInit ==
    /\ LockInit
    /\ SyncInit(WatchRegistry, WatchDisk, ResTree)
    /\ shadow = NoRun

Run(kind, filePath) == [kind |-> kind, path |-> filePath]

\* watcher.on('change'): the event is skipped when its path is being
\* processed; otherwise the path's timer is cleared, if there is one, and set.
ChangeArrives ==
    \E filePath \in WatchReported :
        /\ Run("change", filePath) \in pending
        /\ IF filePath \in processingFiles
           THEN /\ InstallFiles(Answer(State, "change", filePath, <<>>, "skipped",
                       Ret(Called(Fresh(Taken(State, "change", filePath)), "console.log",
                                  <<"Skipping (already processing)">>), "none", FALSE)))
                /\ UNCHANGED debounceTimers
           ELSE /\ InstallFiles([Taken(State, "change", filePath) EXCEPT
                                    !.log = <<>>, !.last = NoLast])
                /\ debounceTimers' = debounceTimers \cup {filePath}
        /\ UNCHANGED <<lockRest, edits, currentWorkspaces, running, shadow>>

\* The timer of a path runs out: the callback deletes it, adds the path to
\* processingFiles and does its work; what it awaits last has yet to return.
TimerFires ==
    \E filePath \in debounceTimers :
        /\ debounceTimers' = debounceTimers \ {filePath}
        /\ InstallFiles(Answer(State, "change", filePath, FindWorkspaceForFile(State, filePath),
                               Classify(filePath), TryChange(State, filePath, TRUE)))
        /\ running' = running \cup {Run("change", filePath)}
        /\ UNCHANGED <<lockRest, edits, currentWorkspaces, shadow>>

\* watcher.on('add'): the handler runs as the event arrives.
AddArrives ==
    \E filePath \in WatchReported :
        /\ Run("add", filePath) \in pending
        /\ InstallFiles(OnAdd(Taken(State, "add", filePath), filePath, TRUE))
        /\ running' = running \cup {Run("add", filePath)}
        /\ UNCHANGED <<lockRest, edits, currentWorkspaces, debounceTimers, shadow>>

\* watcher.on('unlink'): the handler runs as the event arrives.
UnlinkArrives ==
    \E filePath \in WatchReported :
        /\ Run("unlink", filePath) \in pending
        /\ InstallFiles(OnUnlink(Taken(State, "unlink", filePath), filePath, TRUE))
        /\ running' = running \cup {Run("unlink", filePath)}
        /\ UNCHANGED <<lockRest, edits, currentWorkspaces, debounceTimers, shadow>>

\* What a handler awaited returns; the change handler's finally takes its
\* path out of processingFiles.
HandlerReturns ==
    \E run \in running :
        /\ running' = running \ {run}
        /\ processingFiles' = IF run.kind = "change" THEN processingFiles \ {run.path}
                                                     ELSE processingFiles
        /\ UNCHANGED <<lockVars, workspaces, disk, dirs, index, head, remote, stash, log, last,
                       edits, pending, currentWorkspaces, debounceTimers, shadow>>

WatchNext ==
    \/ UserWrites(WatchEdited, Texts)
    \/ UserDeletes({GS1})
    \/ ChangeArrives
    \/ TimerFires
    \/ AddArrives
    \/ UnlinkArrives
    \/ HandlerReturns

SpecWatch == WatchInit /\ [][WatchNext]_vars

\* The runs that start in a step.
Started == running' \ running

\* C32: a handling run, of a change, an add or a removal, starts only as the
\* debounce timer of its path runs out, so that the events of a burst on one
\* path, which all fall on the one timer, give one run.
C32_RunsStartFromTimer ==
    [][\A run \in Started : run.path \in debounceTimers /\ run.path \notin debounceTimers']_vars

\* The part of C32 that concerns change events.
C32_ChangeRunsStartFromTimer ==
    [][\A run \in Started :
          run.kind = "change" => run.path \in debounceTimers /\ run.path \notin debounceTimers']_vars

\* C33: no two handling runs are in flight on one path.
C33_OneRunPerPath ==
    \A r1 \in running, r2 \in running : r1.path = r2.path => r1 = r2

\* The part of C33 that concerns change events: a change event that arrives
\* while the run of its path is in flight is skipped, and the skip logged.
C33_ChangeSkippedWhileInFlight ==
    /\ \A filePath \in debounceTimers : Run("change", filePath) \notin running
    /\ (last.ev = "change" /\ last.branch = "skipped") =>
          /\ Run("change", last.path) \in running \/ last.path \notin processingFiles
          /\ Said(<<"Skipping (already processing)">>) # {}

Settled == pending = {} /\ debounceTimers = {} /\ running = {}

\* C37: when nothing is left to report, to wait for or to return, the
\* shared-rules file the user edited is the repository's canonical file and
\* the shared-rules file of the other workspace.
C37_FinalContentSynced ==
    Settled =>
        /\ remote[<<TARGET_FILE>>] = disk[GlobalFileOf(WA)]
        /\ disk[GlobalFileOf(WB)] = disk[GlobalFileOf(WA)]

====
